---- MODULE Spec2Model ----
(***************************************************************************)
(* PeTrack: the trajectory store (PersonStorage) as it is driven by the    *)
(* main window (src/src/petrack.cpp): the manual edit handlers and the     *)
(* per-frame updateImage pipeline.                                         *)
(*                                                                         *)
(* The PersonStorage/TrackPerson implementation is not part of the         *)
(* sources at hand; its operations are modelled from the design            *)
(* description (section 4.1), everything in petrack.cpp from the code.     *)
(***************************************************************************)
EXTENDS Integers, Sequences, FiniteSets, TLC

(***************************************************************************)
(* Bounds of the model                                                     *)
(***************************************************************************)
\* frames of the sequence are 0 .. MaxFrame
MaxFrame == 2
\* the store holds at most MaxPersons persons
MaxPersons == 2
\* the store holds at most MaxPoints track points in total
MaxPoints == 3

Frames == 0 .. MaxFrame

(***************************************************************************)
(* Geometry (include/vector.h, Vec2F): positions are pixel pairs; three    *)
(* collinear pixels, of which <<0,0>> and <<2,0>> are the only pair that   *)
(* is not within the proximity threshold of each other.                    *)
(***************************************************************************)
PosSet == {<<0, 0>>, <<1, 0>>, <<2, 0>>}

\* Vec2F::distanceToPoint, squared (integers only)
distanceToPointSq(p, q) == (p[1] - q[1]) * (p[1] - q[1]) + (p[2] - q[2]) * (p[2] - q[2])

\* the fixed pixel-distance threshold of the proximity search
DistThreshold == 2

Near(p, q) == distanceToPointSq(p, q) < DistThreshold * DistThreshold

(***************************************************************************)
(* TrackPoint: pixel position and quality.                                 *)
(***************************************************************************)
\* the largest valid quality
MaxQual == 100
\* the quality addOrMoveManualTrackPoint submits for a manual point
ManualQual == 110

TrackPoint(pos, qual) == [pos |-> pos, qual |-> qual]

\* points the recognition delivers in this model
RecoPoints == {TrackPoint(<<0, 0>>, 50), TrackPoint(<<1, 0>>, 100)}
\* pixels the user clicks for a manual insert
ManualPos == {<<1, 0>>, <<2, 0>>}
\* the pixel the user clicks for delete and split (within the threshold of
\* <<0,0>> and <<1,0>>, not of <<2,0>>)
ClickPos == {<<0, 0>>}

(***************************************************************************)
(* TrackPerson: the points of one identity, keyed by frame.                *)
(***************************************************************************)
SetMin(S) == CHOOSE x \in S : \A y \in S : x <= y
SetMax(S) == CHOOSE x \in S : \A y \in S : x >= y

\* the height a person has before recalcHeight computed one
ProvisionalHeight == 0

TrackPerson(frame, point) == [pts |-> [f \in {frame} |-> point], height |-> ProvisionalHeight]

framesOf(person) == DOMAIN person.pts
firstFrame(person) == SetMin(framesOf(person))
lastFrame(person) == SetMax(framesOf(person))
trackPointExist(person, frame) == frame \in framesOf(person)
trackPointAt(person, frame) == person.pts[frame]

\* the person restricted to the frames in keep
restrictTo(person, keep) == [person EXCEPT !.pts = [f \in keep |-> person.pts[f]]]

(***************************************************************************)
(* PersonStorage: the sequence of all persons; a person is addressed by    *)
(* its index, internally 0-based (the UI shows index + 1).                 *)
(***************************************************************************)
nbPersons(store) == Len(store)

RECURSIVE nbPoints(_)
nbPoints(store) ==
    IF store = << >> THEN 0
    ELSE Cardinality(framesOf(Head(store))) + nbPoints(Tail(store))

\* i is a 1-based position in the store; eligiblePersons holds 0-based indices
isEligible(i, eligiblePersons) == eligiblePersons = {} \/ (i - 1) \in eligiblePersons

removeAt(store, i) == SubSeq(store, 1, i - 1) \o SubSeq(store, i + 1, Len(store))

\* the eligible persons with a point at frame within the threshold of pos
proximalAt(store, pos, frame, eligiblePersons) ==
    {i \in 1 .. Len(store) :
        /\ isEligible(i, eligiblePersons)
        /\ trackPointExist(store[i], frame)
        /\ Near(trackPointAt(store[i], frame).pos, pos)}

\* those of them whose point at frame is nearest to pos; {0} when there is none
nearestAt(store, pos, frame, eligiblePersons) ==
    LET C == proximalAt(store, pos, frame, eligiblePersons)
        d(i) == distanceToPointSq(trackPointAt(store[i], frame).pos, pos)
    IN  IF C = {} THEN {0} ELSE {i \in C : \A j \in C : d(i) <= d(j)}

(***************************************************************************)
(* PersonStorage mutation.  Every operation yields the set of its possible *)
(* results (several only when two persons are equally near): the store     *)
(* after it, the 1-based position of the person it matched (0: none), the  *)
(* quality stored for that person at the frame before the call (-1: none)  *)
(* and what was done.                                                      *)
(***************************************************************************)
Result(store, pers, q1, outcome) == [store |-> store, pers |-> pers, q1 |-> q1, outcome |-> outcome]

\* a quality above the valid maximum is clamped when the point is stored
clampQual(point) == [point EXCEPT !.qual = IF point.qual > MaxQual THEN MaxQual ELSE point.qual]

\* the last point of a person
lastPoint(person) == trackPointAt(person, lastFrame(person))

\* (mutant) a person is extended over a gap
extensibleAtGap(store, pos, frame, eligiblePersons) ==
    {i \in 1 .. Len(store) :
        /\ isEligible(i, eligiblePersons)
        /\ lastFrame(store[i]) < frame
        /\ Near(lastPoint(store[i]).pos, pos)}

\* the eligible persons whose range ends at frame - 1, last point near pos
extensibleAt(store, pos, frame, eligiblePersons) ==
    {i \in 1 .. Len(store) :
        /\ isEligible(i, eligiblePersons)
        /\ lastFrame(store[i]) = frame - 1
        /\ Near(lastPoint(store[i]).pos, pos)}

nearestExtensible(store, pos, frame, eligiblePersons) ==
    LET C == extensibleAt(store, pos, frame, eligiblePersons)
        d(i) == distanceToPointSq(lastPoint(store[i]).pos, pos)
    IN  IF C = {} THEN {0} ELSE {i \in C : \A j \in C : d(i) <= d(j)}

\* (mutant) a point of equal quality replaces the stored one
replaceAtFrameNotStrict(store, i, point, frame) ==
    LET q1 == trackPointAt(store[i], frame).qual
    IN  IF point.qual >= q1
        THEN Result([store EXCEPT ![i].pts[frame] = clampQual(point)], i, q1, "replaced")
        ELSE Result(store, i, q1, "kept")

\* (a) replace the stored point iff the new quality is strictly higher
replaceAtFrame(store, i, point, frame) ==
    LET q1 == trackPointAt(store[i], frame).qual
    IN  IF point.qual > q1
        THEN Result([store EXCEPT ![i].pts[frame] = clampQual(point)], i, q1, "replaced")
        ELSE Result(store, i, q1, "kept")

\* (b) extend the person by the point at frame = lastFrame + 1
extendAtFrame(store, i, point, frame) ==
    Result([store EXCEPT ![i].pts = [f \in framesOf(store[i]) \cup {frame} |->
                                        IF f = frame THEN clampQual(point) ELSE store[i].pts[f]]],
           i, -1, "extended")

addPoint(store, point, frame, eligiblePersons) ==
    LET A == nearestAt(store, point.pos, frame, eligiblePersons)
        B == nearestExtensible(store, point.pos, frame, eligiblePersons)
    IN  IF A # {0} THEN {replaceAtFrame(store, i, point, frame) : i \in A}
        ELSE IF B # {0} THEN {extendAtFrame(store, i, point, frame) : i \in B}
        ELSE IF eligiblePersons = {}
             THEN {Result(Append(store, TrackPerson(frame, clampQual(point))),
                          Len(store) + 1, -1, "created")}
             ELSE {Result(store, 0, -1, "refused")}

\* addPoints: every point of the list in turn, all persons eligible
RECURSIVE addPoints(_, _, _)
addPoints(store, persList, frame) ==
    IF persList = << >> THEN {Result(store, 0, -1, "none")}
    ELSE LET first == addPoint(store, Head(persList), frame, {})
         IN  IF Tail(persList) = << >> THEN first
             ELSE UNION {addPoints(r.store, Tail(persList), frame) : r \in first}

\* the frames a directional delete at frame leaves to a person
keptFrames(person, direction, frame) ==
    {f \in framesOf(person) :
        CASE direction = "Previous" -> f > frame
          [] direction = "Following" -> f < frame
          [] OTHER -> FALSE}

\* (mutant) a person left without points stays in the store
delFramesKeepsPerson(store, i, direction, frame) ==
    [store EXCEPT ![i] = restrictTo(store[i], keptFrames(store[i], direction, frame))]

\* the directional delete applied to person i; a person left without points goes
delFrames(store, i, direction, frame) ==
    LET keep == keptFrames(store[i], direction, frame)
    IN  IF keep = {} THEN removeAt(store, i)
        ELSE [store EXCEPT ![i] = restrictTo(store[i], keep)]

delPoint(store, pos, direction, frame, eligiblePersons) ==
    {IF i = 0 THEN Result(store, 0, -1, "nomatch")
     ELSE Result(delFrames(store, i, direction, frame), i, -1,
                 IF keptFrames(store[i], direction, frame) = {} THEN "removed" ELSE "trimmed")
       : i \in nearestAt(store, pos, frame, eligiblePersons)}

\* the directional delete applied to every person, from the last to the first
RECURSIVE delPointAllFrom(_, _, _, _)
delPointAllFrom(store, i, direction, frame) ==
    IF i = 0 THEN store
    ELSE delPointAllFrom(delFrames(store, i, direction, frame), i - 1, direction, frame)

delPointAll(store, direction, frame) == delPointAllFrom(store, Len(store), direction, frame)

splitPersonAt(store, pos, frame, eligiblePersons) ==
    {IF i = 0 THEN Result(store, 0, -1, "nomatch")
     ELSE IF frame = firstFrame(store[i]) \/ frame = lastFrame(store[i])
          THEN Result(store, i, -1, "boundary")
          ELSE Result(Append([store EXCEPT ![i] = restrictTo(store[i], {f \in framesOf(store[i]) : f < frame})],
                             restrictTo(store[i], {f \in framesOf(store[i]) : f >= frame})),
                      i, -1, "split")
       : i \in nearestAt(store, pos, frame, eligiblePersons)}

\* (mutant) the persons that have started by frame
visibleStarted(store, frame) ==
    Cardinality({i \in 1 .. Len(store) : firstFrame(store[i]) <= frame})

\* the number of persons whose range contains frame
visible(store, frame) ==
    Cardinality({i \in 1 .. Len(store) : firstFrame(store[i]) <= frame /\ frame <= lastFrame(store[i])})

clear(store) == << >>

(***************************************************************************)
(* PersonStorage::getProximalPersons: the proximal search over a window of *)
(* frames around the current one.                                          *)
(***************************************************************************)
FrameRange(before, after, current) == [before |-> before, after |-> after, current |-> current]

PersonFrame(pers, frame) == [pers |-> pers, frame |-> frame]

\* (mutant) the frames of a person with a point near pos, whatever the window
matchFramesAnyFrame(person, pos, range) ==
    {f \in framesOf(person) : Near(trackPointAt(person, f).pos, pos)}

\* the frames of the window in which the person has a point near pos
matchFrames(person, pos, range) ==
    {f \in framesOf(person) :
        /\ range.current - range.before <= f
        /\ f <= range.current + range.after
        /\ Near(trackPointAt(person, f).pos, pos)}

\* of these the frames whose point is nearest to pos
nearestFrames(person, pos, range) ==
    LET M == matchFrames(person, pos, range)
        d(f) == distanceToPointSq(trackPointAt(person, f).pos, pos)
    IN  {f \in M : \A g \in M : d(f) <= d(g)}

\* the possible results: one (person, frame) for every eligible person with a
\* point near pos in the window, the frame being one of its nearest points
getProximalPersons(store, pos, eligiblePersons, range) ==
    LET P == {i \in 1 .. Len(store) :
                 isEligible(i, eligiblePersons) /\ matchFrames(store[i], pos, range) # {}}
        All == UNION {{PersonFrame(i, f) : f \in nearestFrames(store[i], pos, range)} : i \in P}
    IN  {R \in SUBSET All : \A i \in P : Cardinality({r \in R : r.pers = i}) = 1}

(***************************************************************************)
(* State                                                                   *)
(***************************************************************************)
VARIABLES
    persons,              \* mPersonStorage: the sequence of TrackPersons
    currentFrame,         \* mAnimation->getCurrentFrameNum()
    lastOp,               \* history: the last store call, its arguments and its result
    imageLoaded,          \* !mImg.empty() && mImage
    semaphore,            \* updateImage: static QSemaphore semaphore(1), its available()
    running,              \* the updateImage executions inside processEvents: their frameNum
    mTrackChanged,        \* Petrack::mTrackChanged
    mRecognitionChanged,  \* Petrack::mRecognitionChanged
    changedFilters,       \* the filters whose changed() is set
    lastRecoFrame,        \* updateImage: static int lastRecoFrame
    tracked,              \* history: the frames the track step has run for
    trackNumberNow,       \* Control: number of points tracked in the last update
    recoNumberNow,        \* Control: number of points recognised in the last update
    lastUpd,              \* history: the last updateImage call and what it did
    trcFile,              \* the lines of the .trc file named by mTrcFileName
    trcVersion,           \* Petrack::trcVersion
    cameraAltitude,       \* the camera altitude set in the control widget
    lastImport,           \* history: the last importTracker call and what it did
    onlineTrackingChecked,      \* the control widget's online tracking setting
    performRecognitionChecked,  \* the control widget's perform recognition setting
    mAutoBackTrack,       \* Petrack::mAutoBackTrack
    trackAllPc,           \* where trackAll is: "idle", "forward", "jump", "backward", "restore"
    memPos,               \* trackAll: the player's position when it was called
    memCheckState,        \* trackAll: the online tracking setting when it was called
    memRecoState,         \* trackAll: the perform recognition setting when it was called
    wasCanceled,          \* the cancellation flag of trackAll's progress dialog
    lastTrackAll,         \* history: what trackAll did last
    mAutoTrackOptimizeColor,  \* Petrack::mAutoTrackOptimizeColor
    trackAllRun,          \* history: how the passes of trackAll ended, optimizeColor called
    mHeadSize,            \* Petrack::mHeadSize, the default head size
    lastHeadSize,         \* history: the last getHeadSize call and what it returned
    trackShowOnlyNrList,  \* the text of the control widget's "show only people list" field
    lastSelection,        \* history: the last getPedestrianUserSelection call and its result
    versionCheck,         \* history: the last newerThanVersion call and its outcome
    roiCall,              \* history: the last getRoi call and the rect it set
    files,                \* the trajectory files on disk: whether they exist, their lines
    mTrcFileName,         \* the name Petrack keeps of the trajectory file, "" for none
    lastExport            \* history: the last exportTracker to a named file and how it went

editVars == <<persons, currentFrame, lastOp>>
numberVars == <<trackNumberNow, recoNumberNow>>
ioVars == <<trcFile, trcVersion, cameraAltitude, lastImport>>
pipelineVars == <<imageLoaded, semaphore, running, mTrackChanged, mRecognitionChanged,
                  changedFilters, lastRecoFrame, tracked, trackNumberNow, recoNumberNow, lastUpd>>
trackAllVars == <<onlineTrackingChecked, performRecognitionChecked, mAutoBackTrack, trackAllPc,
                  memPos, memCheckState, memRecoState, wasCanceled, lastTrackAll,
                  mAutoTrackOptimizeColor, trackAllRun>>
queryVars == <<mHeadSize, lastHeadSize, trackShowOnlyNrList, lastSelection, versionCheck,
               roiCall, files, mTrcFileName, lastExport>>
fileVars == <<files, mTrcFileName, lastExport>>
updateVars == <<imageLoaded, semaphore, running, mTrackChanged, mRecognitionChanged,
                changedFilters, lastRecoFrame, tracked, trackNumberNow, recoNumberNow, lastUpd,
                trackAllVars>>
vars == <<persons, currentFrame, lastOp, imageLoaded, semaphore, running, mTrackChanged,
          mRecognitionChanged, changedFilters, lastRecoFrame, tracked, trackNumberNow,
          recoNumberNow, lastUpd, trcFile, trcVersion, cameraAltitude, lastImport,
          onlineTrackingChecked, performRecognitionChecked, mAutoBackTrack, trackAllPc,
          memPos, memCheckState, memRecoState, wasCanceled, lastTrackAll,
          mAutoTrackOptimizeColor, trackAllRun, mHeadSize, lastHeadSize, trackShowOnlyNrList, lastSelection, versionCheck,
          roiCall, files, mTrcFileName, lastExport>>

\* pos, q2: the point submitted; direction: the int deleteTrackPoint was given
\* (recorded when a person was matched);
\* dirAll: the Direction deleteTrackPointAll was given; elig: the eligible set
Op(op, r, pos, q2, direction, dirAll, elig) ==
    [op |-> op, pers |-> r.pers, q1 |-> r.q1, outcome |-> r.outcome,
     pos |-> pos, q2 |-> q2, direction |-> direction, dirAll |-> dirAll, elig |-> elig]

NoResult == Result(<< >>, 0, -1, "none")
NoPos == <<-1, -1>>

\* the model keeps the store within its bounds
withinBounds(store) == nbPersons(store) <= MaxPersons /\ nbPoints(store) <= MaxPoints

(***************************************************************************)
(* The "show only" controls and Petrack::getPedestrianUserSelection        *)
(***************************************************************************)
Selection(showOnly, nr, showOnlyList, hasValue, ids) ==
    [trackShowOnly |-> showOnly, trackShowOnlyNr |-> nr, trackShowOnlyList |-> showOnlyList,
     enteredIDs |-> [has_value |-> hasValue, value |-> ids]]

\* the states of the controls drawn as inputs: nothing checked, "show only"
\* the first person, a list naming the second person
UserSelections ==
    {Selection(FALSE, 1, FALSE, FALSE, {}),
     Selection(TRUE, 1, FALSE, FALSE, {}),
     Selection(FALSE, 1, TRUE, TRUE, {2})}

\* the number of values of size_t; the module's integers end below 2^64,
\* the wrap of a negative value is kept at 2^30
SizeValues == 2 ^ 30

\* the conversion of an int to size_t
toSizeT(n) == n % SizeValues

\* the indices are inserted into a QSet<size_t>
getPedestrianUserSelection(w) ==
    IF w.trackShowOnly THEN {toSizeT(w.trackShowOnlyNr - 1)}
    ELSE IF w.trackShowOnlyList /\ w.enteredIDs.has_value
         THEN {toSizeT(id - 1) : id \in w.enteredIDs.value}
         ELSE {}

(***************************************************************************)
(* The manual edit handlers of Petrack                                     *)
(***************************************************************************)
\* the int direction of deleteTrackPoint: up to the current frame (-1),
\* from the current frame on (1), the whole path (0)
directionOf(direction) ==
    CASE direction = -1 -> "Previous"
      [] direction = 1 -> "Following"
      [] OTHER -> "Whole"

\* (mutant) the manual point is submitted with the maximal valid quality
addOrMoveManualTrackPointMaxQual(store, pos, frame, w) ==
    addPoint(store, TrackPoint(pos, MaxQual), frame, getPedestrianUserSelection(w))

\* (mutant) the manual point is submitted without the user's selection
addOrMoveManualTrackPointAnyPerson(store, pos, frame, w) ==
    addPoint(store, TrackPoint(pos, ManualQual), frame, {})

addOrMoveManualTrackPoint(store, pos, frame, w) ==
    addPoint(store, TrackPoint(pos, ManualQual), frame, getPedestrianUserSelection(w))

\* (mutant) the two directions are taken for each other
deleteTrackPointSwapped(store, pos, direction, frame, w) ==
    delPoint(store, pos, directionOf(-direction), frame, getPedestrianUserSelection(w))

\* (mutant) the delete is issued without the user's selection
deleteTrackPointAnyPerson(store, pos, direction, frame, w) ==
    delPoint(store, pos, directionOf(direction), frame, {})

deleteTrackPoint(store, pos, direction, frame, w) ==
    delPoint(store, pos, directionOf(direction), frame, getPedestrianUserSelection(w))

\* (mutant) the bulk delete is issued for the frame before the current one
deleteTrackPointAllPrevFrame(store, direction, frame) == delPointAll(store, direction, frame - 1)

deleteTrackPointAll(store, direction, frame) == delPointAll(store, direction, frame)

\* (mutants) the split is issued for the frame after / before the current one
splitTrackPersonNextFrame(store, pos, frame, w) ==
    splitPersonAt(store, pos, frame + 1, getPedestrianUserSelection(w))

splitTrackPersonPrevFrame(store, pos, frame, w) ==
    splitPersonAt(store, pos, frame - 1, getPedestrianUserSelection(w))

splitTrackPerson(store, pos, frame, w) ==
    splitPersonAt(store, pos, frame, getPedestrianUserSelection(w))

\* skipToFrameWheel: the player moves by delta frames
skipToFrameWheel(pos, delta) == pos + delta

\* the values of the "show before / after" controls drawn as inputs
ShowRange == {0, 1}
\* the pixels clicked for skipToFrameFromTrajectory
SelectPos == {<<1, 0>>, <<2, 0>>}

\* what the search of skipToFrameFromTrajectory can return
trajectoryMatches(store, pos, currFrame, w, before, after) ==
    getProximalPersons(store, pos, getPedestrianUserSelection(w), FrameRange(before, after, currFrame))

\* (mutant) with several matches the player skips to one of them
skipToFrameFromTrajectoryGuess(res, currFrame) ==
    IF Cardinality(res) >= 1 THEN (CHOOSE r \in res : TRUE).frame ELSE currFrame

\* skipToFrameFromTrajectory: the frame the player is at after the search returned res
skipToFrameFromTrajectory(res, currFrame) ==
    IF Cardinality(res) = 1 THEN (CHOOSE r \in res : TRUE).frame ELSE currFrame

(***************************************************************************)
(* Petrack::updateImage: the filter, track, recognise and store pipeline   *)
(***************************************************************************)
\* the executions of updateImage that may be nested inside each other
MaxDepth == 2

\* the initial value of the static lastRecoFrame
NoRecoFrame == -10000

\* the filters whose changed() flag updateImage reads
FilterNames == {"brightContrast", "swap", "border", "calib"}

\* the states of the control widgets updateImage reads
Control(online, onlySelected, w, performReco, recoStep, live) ==
    [onlineTracking |-> online, trackOnlySelected |-> onlySelected, selection |-> w,
     performRecognition |-> performReco, recoStep |-> recoStep, cameraLiveStream |-> live]

Controls ==
    {Control(online, FALSE, Selection(FALSE, 1, FALSE, FALSE, {}), performReco, 1, FALSE) :
        online \in BOOLEAN, performReco \in BOOLEAN}
    \cup {Control(TRUE, FALSE, Selection(FALSE, 1, FALSE, FALSE, {}), TRUE, 2, FALSE),
          Control(TRUE, TRUE, Selection(TRUE, 1, FALSE, FALSE, {}), TRUE, 1, TRUE)}

\* what the tracker and the recognition deliver for a frame: nothing or one
\* point; the two points are of the same quality and within the threshold of
\* each other, so the one that is stored first keeps the frame
TrackLists == {<< >>, <<TrackPoint(<<0, 0>>, 50)>>}
RecoLists == {<< >>, <<TrackPoint(<<1, 0>>, 50)>>}

getPedestriansToTrack(c) ==
    IF c.trackOnlySelected THEN getPedestrianUserSelection(c.selection) ELSE {}

\* (mutant) the guard lets every call in
tryAcquireAlways(sem) == [ok |-> TRUE, sem |-> IF sem > 0 THEN sem - 1 ELSE sem]

\* QSemaphore::tryAcquire: takes the resource if one is available, never waits
tryAcquire(sem) == IF sem > 0 THEN [ok |-> TRUE, sem |-> sem - 1] ELSE [ok |-> FALSE, sem |-> sem]

\* (mutant) an updateImage that ends without giving the guard back
releaseNothing(sem) == sem

\* QSemaphore::release
release(sem) == sem + 1

\* (mutant) tracking runs on every update while online tracking is checked
trackConditionOnlineOnly(trackChanged, imageChanged, online) == online

\* the condition of the track step
trackCondition(trackChanged, imageChanged, online) == (trackChanged \/ imageChanged) /\ online

\* a recognition step that runs for every delivered frame
recoConditionEveryFrame(lastReco, recoStep, frameNum, imageChanged, live, chg, recognitionChanged) ==
    \/ imageChanged
    \/ live
    \/ chg # {}
    \/ recognitionChanged

\* the condition of the recognition step
recoCondition(lastReco, recoStep, frameNum, imageChanged, live, chg, recognitionChanged) ==
    \/ /\ \/ lastReco + recoStep <= frameNum
          \/ lastReco - recoStep >= frameNum
       /\ imageChanged
    \/ live
    \/ "swap" \in chg
    \/ "brightContrast" \in chg
    \/ "border" \in chg
    \/ "calib" \in chg
    \/ recognitionChanged

\* Tracker::track: the tracked points enter the store for the pedestrians to
\* track; the result is the store and the number of points tracked (anz)
Tracked(store, anz) == [store |-> store, anz |-> anz]

RECURSIVE track(_, _, _, _)
track(store, trackList, frameNum, pedestriansToTrack) ==
    IF trackList = << >> THEN {Tracked(store, 0)}
    ELSE UNION {{Tracked(t.store, t.anz + (IF r.outcome = "refused" THEN 0 ELSE 1)) :
                    t \in track(r.store, Tail(trackList), frameNum, pedestriansToTrack)} :
                r \in addPoint(store, Head(trackList), frameNum, pedestriansToTrack)}

\* (mutant) the recognised points are stored before the tracker runs
recogniseThenTrack(store, doTrack, doReco, trackList, persList, frameNum, pedestriansToTrack) ==
    LET afterReco == IF doReco THEN {r.store : r \in addPoints(store, persList, frameNum)} ELSE {store}
    IN  IF doTrack THEN UNION {track(st, trackList, frameNum, pedestriansToTrack) : st \in afterReco}
        ELSE {Tracked(st, 0) : st \in afterReco}

\* the track step, then the recognition step: the stores they can leave
trackThenRecognise(store, doTrack, doReco, trackList, persList, frameNum, pedestriansToTrack) ==
    LET afterTrack == IF doTrack THEN track(store, trackList, frameNum, pedestriansToTrack)
                      ELSE {Tracked(store, 0)}
    IN  IF doReco
        THEN UNION {{Tracked(r.store, t.anz) : r \in addPoints(t.store, persList, frameNum)} : t \in afterTrack}
        ELSE afterTrack

\* call: "opened" (a sequence was opened, no call yet),
\* "run" (the body was entered), "dropped", "returned" (a body left
\* processEvents and released the guard), "none"; tracked: "no", "first" (the
\* track step ran for a frame it had not run for), "again"
\* what the recognition step reads of the control widgets; NoRecoControl
\* stands where no body ran
RecoControl(performReco, recoStep, live) ==
    [performRecognition |-> performReco, recoStep |-> recoStep, cameraLiveStream |-> live]
NoRecoControl == RecoControl(FALSE, 0, FALSE)

\* control: what the body read of the controls for its recognition step;
\* reco: the recognition ran and handed its points to the store
Upd(call, imageChanged, trackRun) ==
    [call |-> call, imageChanged |-> imageChanged, tracked |-> trackRun,
     control |-> NoRecoControl, reco |-> FALSE]
UpdRun(imageChanged, trackRun, c, recoRun) ==
    [call |-> "run", imageChanged |-> imageChanged, tracked |-> trackRun,
     control |-> RecoControl(c.performRecognition, c.recoStep, c.cameraLiveStream), reco |-> recoRun]
NoUpd == Upd("none", FALSE, "no")

(***************************************************************************)
(* The height of a person                                                  *)
(***************************************************************************)
\* camera altitudes the control widget can be set to
Altitudes == {10, 20}

\* the projected real-world value of a point the height is computed from
projectedZ(point) == point.pos[1] + point.qual \div 50

RECURSIVE sumZ(_, _)
sumZ(person, frames) ==
    IF frames = {} THEN 0
    ELSE LET f == SetMin(frames) IN projectedZ(person.pts[f]) + sumZ(person, frames \ {f})

\* the height of a person: the altitude less the mean of the projected
\* values of all its points
heightFromPoints(person, altitude) ==
    altitude - (sumZ(person, framesOf(person)) \div Cardinality(framesOf(person)))

\* a recalcHeight that averages the new value into the cached height
recalcHeightRunning(store, altitude) ==
    [i \in 1..Len(store) |->
        [store[i] EXCEPT !.height = (store[i].height + heightFromPoints(store[i], altitude)) \div 2]]

\* recalcHeight(altitude): every person's height is computed anew from its
\* points and the altitude; the cached height is overwritten
recalcHeight(store, altitude) ==
    [i \in 1..Len(store) |-> [store[i] EXCEPT !.height = heightFromPoints(store[i], altitude)]]

(***************************************************************************)
(* The head size                                                           *)
(***************************************************************************)
\* the real diameter of a head
HEAD_SIZE == 21

\* the height of a person no height was measured for
MIN_HEIGHT == ProvisionalHeight

\* the ground resolution mWorldImageCorrespondence->getCmPerPixel() gives
getCmPerPixel == 2

\* the default height of the control widget
getDefaultHeight == 5

\* the camera distances sp().z() a point can carry: none (-1), zero, a distance
CameraDistances == {-1, 0, 4}

\* the sizes the projection of a head into the image can give (3D calibration)
ProjectedSizes == {8}

\* a value of type double, kept as the quotient num / den it was computed as;
\* den = 0 is the infinite value the division gives
Quotient(num, den) == [num |-> num, den |-> den]

\* setHeadSize(hS): hS = -1 asks for the size computed from the calibration
setHeadSize(hS, altitude) ==
    IF hS = -1
    THEN Quotient(HEAD_SIZE * altitude, (altitude - getDefaultHeight) * getCmPerPixel)
    ELSE Quotient(hS, 1)

\* what getHeadSize returns: the branch taken, the value, and the
\* (person, frame) pairs whose point it read
HeadSize(outcome, value, reads) == [outcome |-> outcome, value |-> value, reads |-> reads]

\* a guard that tests the person's index only
pointReadableAnyFrame(store, pers, frame) == pers >= 0 /\ pers < nbPersons(store)

\* the guard of getHeadSize: the person exists and has a point at the frame
pointReadable(store, pers, frame) ==
    /\ pers >= 0
    /\ pers < nbPersons(store)
    /\ trackPointExist(store[pers + 1], frame)

\* getHeadSize(pos, pers, frame); dim is getCalibCoordDimension() (0: 3D),
\* z the camera distance of the point read, diff the projected size
getHeadSize(store, pers, frame, dim, z, diff, altitude, headSize) ==
    IF pointReadable(store, pers, frame)
    THEN IF dim = 0
         THEN HeadSize("projected", Quotient(diff, 1), {<<pers, frame>>})
         ELSE LET h == store[pers + 1].height
              IN  IF z > 0
                  THEN HeadSize("distance", Quotient(HEAD_SIZE * altitude, z * getCmPerPixel),
                                {<<pers, frame>>})
                  ELSE IF h > MIN_HEIGHT
                  THEN HeadSize("height", Quotient(HEAD_SIZE * altitude, (altitude - h) * getCmPerPixel),
                                {<<pers, frame>>})
                  ELSE HeadSize("default", headSize, {<<pers, frame>>})
    ELSE HeadSize("default", headSize, {})

HeadSizeCall(store, pers, frame, dim, z, altitude, headSize, result) ==
    [store |-> store, pers |-> pers, frame |-> frame, dim |-> dim, z |-> z,
     altitude |-> altitude, headSize |-> headSize, result |-> result]
NoHeadSize == HeadSizeCall(<< >>, -1, -1, 0, -1, 0, Quotient(0, 1), HeadSize("none", Quotient(0, 1), {}))

(***************************************************************************)
(* Texts: a QString is the sequence of its characters                      *)
(***************************************************************************)
\* the longest text typed into a field
MaxText == 5

Digits == {"0", "1", "2"}
\* the characters typed: digits, the range mark, the separator, a letter
Alphabet == Digits \cup {"-", ",", "a"}

digitValue(c) == IF c = "0" THEN 0 ELSE IF c = "1" THEN 1 ELSE 2

RECURSIVE digitsValue(_)
digitsValue(s) ==
    IF s = << >> THEN 0
    ELSE digitsValue(SubSeq(s, 1, Len(s) - 1)) * 10 + digitValue(s[Len(s)])

\* QString::toInt(&ok): an optional minus sign and at least one digit;
\* the value is 0 when the conversion fails
textToInt(s) ==
    LET negative == s # << >> /\ s[1] = "-"
        body == IF negative THEN Tail(s) ELSE s
        ok == body # << >> /\ \A i \in 1 .. Len(body) : body[i] \in Digits
    IN  [ok |-> ok,
         value |-> IF ~ok THEN 0 ELSE IF negative THEN 0 - digitsValue(body) ELSE digitsValue(body)]

RECURSIVE splitFrom(_, _, _, _)
splitFrom(s, sep, i, part) ==
    IF i > Len(s) THEN <<part>>
    ELSE IF s[i] = sep THEN <<part>> \o splitFrom(s, sep, i + 1, << >>)
    ELSE splitFrom(s, sep, i + 1, Append(part, s[i]))

\* QString::split(sep): the parts between the separators, empty ones kept
split(s, sep) == splitFrom(s, sep, 1, << >>)

\* QString::split(sep, Qt::SkipEmptyParts)
splitSkipEmptyParts(s, sep) == SelectSeq(split(s, sep), LAMBDA part : part # << >>)

(***************************************************************************)
(* The user's selection of persons                                         *)
(***************************************************************************)
\* std::optional<QSet<int>>: nullopt is has_value = FALSE
Optional(has_value, value) == [has_value |-> has_value, value |-> value]
nullopt == Optional(FALSE, {})

\* splitStringToInt: the test of a single value
singleValue(enteredID) == enteredID >= 0

\* splitStringToInt: one element of the text; the ok = false set for an
\* element that starts with "-" is overwritten by range[0].toInt(&ok)
splitElement(id) ==
    LET entered == textToInt(id)
    IN  IF entered.ok /\ singleValue(entered.value)
        THEN Optional(TRUE, {entered.value})
        ELSE LET range == split(id, "-")
                 first == textToInt(range[1])
                 ok == first.ok /\ Len(range) = 2 /\ range[2] # << >>
             IN  IF ~ok THEN nullopt
                 ELSE LET last == textToInt(range[2])
                      IN  IF ~last.ok THEN nullopt
                          ELSE Optional(TRUE, IF first.value > last.value
                                              THEN last.value .. first.value
                                              ELSE first.value .. last.value)

\* a loop that returns what it has collected when an element fails
RECURSIVE splitElementsPartial(_, _, _)
splitElementsPartial(elements, i, ids) ==
    IF i > Len(elements) THEN Optional(TRUE, ids)
    ELSE LET e == splitElement(elements[i])
         IN  IF ~e.has_value THEN Optional(TRUE, ids)
             ELSE splitElementsPartial(elements, i + 1, ids \cup e.value)

\* splitStringToInt: the loop over the elements; the first element that
\* fails ends it with nullopt
RECURSIVE splitElements(_, _, _)
splitElements(elements, i, ids) ==
    IF i > Len(elements) THEN Optional(TRUE, ids)
    ELSE LET e == splitElement(elements[i])
         IN  IF ~e.has_value THEN nullopt
             ELSE splitElements(elements, i + 1, ids \cup e.value)

\* util::splitStringToInt(input)
splitStringToInt(input) == splitElements(splitSkipEmptyParts(input, ","), 1, {})

UserSelection(text, outcome, ids, selected) ==
    [text |-> text, outcome |-> outcome, ids |-> ids, selected |-> selected]
NoSelection == UserSelection(<< >>, "none", nullopt, {})

(***************************************************************************)
(* Version strings                                                         *)
(***************************************************************************)
\* the largest number of parts of a version string
MaxParts == 4

\* the numeric parts version strings are made of
VersionParts == {<<"0">>, <<"2">>, <<"1", "0">>}

RECURSIVE joinParts(_)
joinParts(parts) ==
    IF Len(parts) = 1 THEN parts[1]
    ELSE parts[1] \o <<".">> \o joinParts(Tail(parts))

\* the version strings compared: every string of 1 .. MaxParts numeric
\* parts, and strings with a letter, an empty part or no character at all
VersionTexts ==
    {joinParts(parts) : parts \in UNION {[1 .. n -> VersionParts] : n \in 1 .. MaxParts}}
    \cup {<< >>, <<"a">>, <<"0", ".", "a">>, <<"a", ".", "0", ".", "2">>,
          <<"0", ".", "2", ".", "a">>, <<"0", ".", ".", "2">>, <<"0", ".", "2", ".">>}

amountOfVersionParts == 3

\* a reading that adds no patch part
withoutPatch(parts) == parts

\* special case: PATCH can be left out and is then taken as zero
withPatch(parts) == IF Len(parts) = 2 THEN Append(parts, 0) ELSE parts

\* the loop over the three parts: the first part that differs decides
RECURSIVE newerParts(_, _, _)
newerParts(version1_parts, version2_parts, i) ==
    IF i > amountOfVersionParts THEN "false"
    ELSE IF version1_parts[i] > version2_parts[i] THEN "true"
    ELSE IF version1_parts[i] < version2_parts[i] THEN "false"
    ELSE newerParts(version1_parts, version2_parts, i + 1)

\* newerThanVersion(q1, q2): "true", "false", or the std::invalid_argument
\* it throws ("non-numeric", "wrong-parts")
newerThanVersion(q1, q2) ==
    LET version1 == split(q1, ".")
        version2 == split(q2, ".")
        numeric(version) == \A i \in 1 .. Len(version) : textToInt(version[i]).ok
        parts(version) == [i \in 1 .. Len(version) |-> textToInt(version[i]).value]
    IN  IF ~numeric(version1) \/ ~numeric(version2) THEN "non-numeric"
        ELSE LET version1_parts == parts(version1)
                 version2_parts == parts(version2)
                 three(p) == Len(p) = amountOfVersionParts
             IN  IF three(version1_parts) /\ three(version2_parts)
                 THEN newerParts(version1_parts, version2_parts, 1)
                 ELSE IF three(withPatch(version1_parts)) /\ three(withPatch(version2_parts))
                 THEN newerParts(withPatch(version1_parts), withPatch(version2_parts), 1)
                 ELSE "wrong-parts"

VersionCheck(q1, q2, outcome) == [q1 |-> q1, q2 |-> q2, outcome |-> outcome]
NoVersionCheck == VersionCheck(<< >>, << >>, "none")

(***************************************************************************)
(* getRoi: a region of interest is cut to the image                        *)
(***************************************************************************)
\* the largest number of columns and of rows of an image
MaxSide == 3

\* the sizes of an image: cols, rows
ImageSides == 1 .. MaxSide

\* the left and top edges of a QRect, from left of (above) the image to right
\* of (below) it, and its widths and heights
RoiEdges == (0 - MaxSide) .. (MaxSide + 1)
RoiSides == 0 .. (MaxSide + 1)

QRect(x, y, width, height) == [x |-> x, y |-> y, width |-> width, height |-> height]
Rect(x, y, width, height) == [x |-> x, y |-> y, width |-> width, height |-> height]

\* a % b of two ints: the remainder has the sign of a
cRem(a, b) == IF a >= 0 THEN a % b ELSE 0 - ((0 - a) % b)

\* the side of the rect once it was made even
evenSide(side, evenPixelNumber) ==
    IF evenPixelNumber /\ cRem(side, 2) > 0 THEN side - 1 ELSE side

\* one axis of getRoi: edge and side of the roi against the size of the image
\* on that axis; yields <<edge, side>> of the rect
clipAxis(edge, side, size) ==
    LET moved == IF edge < 0 THEN <<0, side + edge>>
                 ELSE IF edge > size THEN <<size, 0>>
                 ELSE <<edge, side>>
    IN  IF moved[1] + moved[2] > size
        THEN <<moved[1], moved[2] - (moved[1] + moved[2] - size)>>
        ELSE moved

\* getRoi(img, roi, rect, evenPixelNumber): the rect it sets
getRoi(cols, rows, roi, evenPixelNumber) ==
    LET h == clipAxis(roi.x, evenSide(roi.width, evenPixelNumber), cols)
        v == clipAxis(roi.y, evenSide(roi.height, evenPixelNumber), rows)
    IN  Rect(h[1], v[1], h[2], v[2])

\* a getRoi call: the image's size, the roi, the flag and the rect it set
\* (done: the call was made)
RoiCall(cols, rows, roi, evenPixelNumber, done, rect) ==
    [cols |-> cols, rows |-> rows, roi |-> roi, evenPixelNumber |-> evenPixelNumber,
     done |-> done, rect |-> rect]
NoRoiCall == RoiCall(0, 0, QRect(0, 0, 0, 0), FALSE, FALSE, Rect(0, 0, 0, 0))

\* getPedestrianUserSelection() with the text of the list field: the text
\* is read and split if the list is the branch taken
readUserSelection(showOnly, showOnlyNr, showOnlyList, text) ==
    LET enteredIDs == IF ~showOnly /\ showOnlyList THEN splitStringToInt(text) ELSE nullopt
        w == Selection(showOnly, showOnlyNr, showOnlyList, enteredIDs.has_value, enteredIDs.value)
        outcome == IF showOnly THEN "single"
                   ELSE IF ~showOnlyList THEN "all"
                   ELSE IF enteredIDs.has_value THEN "list" ELSE "invalid"
    IN  UserSelection(IF ~showOnly /\ showOnlyList THEN text ELSE << >>, outcome, enteredIDs,
                      getPedestrianUserSelection(w))

(***************************************************************************)
(* The .trc trajectory file: a sequence of lines, a line a sequence of      *)
(* tokens, a token a word or an integer.                                   *)
(***************************************************************************)
Word(text) == [kind |-> "word", text |-> text, n |-> 0]
Num(n) == [kind |-> "int", text |-> "", n |-> n]

\* QString::toInt(&ok): the whole line is one integer
toInt(line) ==
    IF Len(line) = 1 /\ line[1].kind = "int" THEN [ok |-> TRUE, value |-> line[1].n]
    ELSE [ok |-> FALSE, value |-> 0]

\* the decimal text of n begins with the digit d (n below 100)
startsWithDigit(n, d) == n = d \/ n \div 10 = d

\* firstLine.contains("version d"): the text occurs anywhere in the line
containsVersion(line, d) ==
    \E i \in 1..(Len(line) - 1) :
        line[i] = Word("version") /\ line[i + 1].kind = "int" /\ startsWithDigit(line[i + 1].n, d)

\* operator<< of a person: first frame, number of points, then x, y and
\* quality of every point in frame order
toTrc(person) ==
    LET first == firstFrame(person)
        k == Cardinality(framesOf(person))
    IN  [j \in 1..(2 + 3 * k) |->
            IF j = 1 THEN Num(first)
            ELSE IF j = 2 THEN Num(k)
            ELSE LET pt == person.pts[first + ((j - 3) \div 3)]
                     c == (j - 3) % 3
                 IN  Num(IF c = 0 THEN pt.pos[1] ELSE IF c = 1 THEN pt.pos[2] ELSE pt.qual)]

\* fromTrc: the person a record line encodes
fromTrc(line) ==
    LET first == line[1].n
        k == line[2].n
    IN  [pts |-> [f \in first..(first + k - 1) |->
                    TrackPoint(<<line[3 + 3 * (f - first)].n, line[4 + 3 * (f - first)].n>>,
                               line[5 + 3 * (f - first)].n)],
         height |-> ProvisionalHeight]

\* exportTracker, .trc branch, without the person count line
exportTrackerNoCount(store) ==
    <<<<Word("version"), Num(4)>>>> \o [i \in 1..Len(store) |-> toTrc(store[i])]

\* exportTracker, .trc branch: the version line, the person count, one
\* record per person
exportTracker(store) ==
    <<<<Word("version"), Num(4)>>, <<Num(nbPersons(store))>>>> \o [i \in 1..Len(store) |-> toTrc(store[i])]

\* what the header says: the version, the person count, the line of the
\* first record; ok is FALSE for a header importTracker refuses
Header(ok, version, sz, next) == [ok |-> ok, version |-> version, sz |-> sz, next |-> next]

\* in >> sz: the count on the line after a version line
countLine(file) == IF Len(file) >= 2 THEN toInt(file[2]).value ELSE 0

\* a header reader that knows the current version only
readHeaderLatestOnly(file) ==
    LET t == toInt(file[1])
    IN  IF ~t.ok
        THEN IF containsVersion(file[1], 4) THEN Header(TRUE, 4, countLine(file), 3)
             ELSE Header(FALSE, 0, 0, 0)
        ELSE Header(TRUE, 1, t.value, 2)

\* importTracker, the header: a bare integer is version 1 and the count; a
\* line holding "version 4", "version 3" or "version 2" gives the version and
\* the count follows; any other first line is refused
readHeader(file) ==
    LET t == toInt(file[1])
    IN  IF ~t.ok
        THEN IF containsVersion(file[1], 4) THEN Header(TRUE, 4, countLine(file), 3)
             ELSE IF containsVersion(file[1], 3) THEN Header(TRUE, 3, countLine(file), 3)
             ELSE IF containsVersion(file[1], 2) THEN Header(TRUE, 2, countLine(file), 3)
             ELSE Header(FALSE, 0, 0, 0)
        ELSE Header(TRUE, 1, t.value, 2)

Imported(file, outcome, store, version, sz) ==
    [file |-> file, outcome |-> outcome, store |-> store, version |-> version, sz |-> sz]

\* an importTracker whose refusal of the header does not return
importTrackerNoReturn(store, file, version) ==
    LET h == readHeader(file)
        sz == IF h.ok THEN h.sz ELSE countLine(file)
        next == IF h.ok THEN h.next ELSE 3
    IN  Imported(file, IF h.ok THEN "imported" ELSE "rejected",
                 store \o [i \in 1..sz |-> fromTrc(file[next + i - 1])],
                 IF h.ok THEN h.version ELSE version, sz)

\* importTracker, .trc branch: sz persons are read and appended to the store;
\* a refused header leaves the store and trcVersion as they were
importTracker(store, file, version) ==
    LET h == readHeader(file)
    IN  IF ~h.ok THEN Imported(file, "rejected", store, version, 0)
        ELSE Imported(file, "imported",
                      store \o [i \in 1..h.sz |-> fromTrc(file[h.next + i - 1])],
                      h.version, h.sz)

\* history: the last import, without the store
ImportOf(r) == [file |-> r.file, outcome |-> r.outcome, version |-> r.version, sz |-> r.sz]
NoImport == [file |-> << >>, outcome |-> "none", version |-> 0, sz |-> 0]

\* the record of the one person the legacy files below hold
LegacyRecord == toTrc(TrackPerson(0, TrackPoint(<<1, 0>>, 50)))

\* files written by other versions of the program, and files that are not
\* .trc files: a bare count, a declared version d, another first line
TrcFiles ==
    {<<<<Num(1)>>, LegacyRecord>>, <<<<Num(0)>>>>}
    \cup {<<<<Word("version"), Num(d)>>, <<Num(1)>>, LegacyRecord>> : d \in {1, 2, 3, 4, 5, 40}}
    \cup {<<<<Word("PeTrack"), Word("project")>>, <<Num(1)>>, LegacyRecord>>}

(***************************************************************************)
(* The legacy .txt trajectory file: comment lines starting with # and      *)
(* records "personNr frameNr x y z".                                       *)
(***************************************************************************)
TxtComment(hasCm) == [kind |-> "comment", hasCm |-> hasCm, personNr |-> 0, frameNr |-> 0, v |-> <<0, 0, 0>>]
TxtRecord(personNr, frameNr, v) ==
    [kind |-> "record", hasCm |-> FALSE, personNr |-> personNr, frameNr |-> frameNr, v |-> v]

\* the state of the reading loop: personData maps (personNr, frameNr) to
\* the coordinates in cm; ok is FALSE once a (person, frame) came twice
TxtData(ok, personData) == [ok |-> ok, personData |-> personData]

\* a reading loop that lets a later record of a (person, frame) replace
\* the earlier one
RECURSIVE readTxtOverwriting(_, _, _, _, _, _)
readTxtOverwriting(file, i, headerHasCm, unitFound, factor, personData) ==
    IF i > Len(file) THEN TxtData(TRUE, personData)
    ELSE LET line == file[i]
         IN  IF line.kind = "comment"
             THEN readTxtOverwriting(file, i + 1, line.hasCm, unitFound, factor, personData)
             ELSE LET toM == ~unitFound /\ ~headerHasCm
                      f == IF toM THEN 100 ELSE factor
                      key == <<line.personNr, line.frameNr>>
                      v == <<line.v[1] * f, line.v[2] * f, line.v[3] * f>>
                  IN  readTxtOverwriting(file, i + 1, headerHasCm, unitFound \/ toM, f,
                                         [k \in DOMAIN personData \cup {key} |->
                                             IF k = key THEN v ELSE personData[k]])

\* the reading loop of importTracker, .txt branch, from line i on
RECURSIVE readTxt(_, _, _, _, _, _)
readTxt(file, i, headerHasCm, unitFound, factor, personData) ==
    IF i > Len(file) THEN TxtData(TRUE, personData)
    ELSE LET line == file[i]
         IN  IF line.kind = "comment"
             THEN readTxt(file, i + 1, line.hasCm, unitFound, factor, personData)
             ELSE LET toM == ~unitFound /\ ~headerHasCm
                      f == IF toM THEN 100 ELSE factor
                      key == <<line.personNr, line.frameNr>>
                      v == <<line.v[1] * f, line.v[2] * f, line.v[3] * f>>
                  IN  IF key \in DOMAIN personData THEN TxtData(FALSE, personData)
                      ELSE readTxt(file, i + 1, headerHasCm, unitFound \/ toM, f,
                                   [k \in DOMAIN personData \cup {key} |->
                                       IF k = key THEN v ELSE personData[k]])

\* getPosImage: the pixel of a real-world position in cm
getPosImage(v) == <<v[1] \div 100, v[2] \div 100>>

\* the frames personData holds for personNr
txtFrames(personData, personNr) == {k[2] : k \in {q \in DOMAIN personData : q[1] = personNr}}

\* the n-th smallest element of S
RECURSIVE nth(_, _)
nth(S, n) == IF n = 1 THEN SetMin(S) ELSE nth(S \ {SetMin(S)}, n - 1)

\* the TrackPerson built for personNr: it starts at the person's first
\* frame, its points are appended in frame order, its height is the z of
\* the first frame
txtPerson(personData, personNr) ==
    LET frames == txtFrames(personData, personNr)
        first == SetMin(frames)
    IN  [pts |-> [f \in first..(first + Cardinality(frames) - 1) |->
                    TrackPoint(getPosImage(personData[<<personNr, nth(frames, f - first + 1)>>]), 100)],
         height |-> personData[<<personNr, first>>][3]]

\* the orders in which the persons of S can be visited
RECURSIVE orders(_)
orders(S) ==
    IF S = {} THEN {<< >>}
    ELSE UNION {{<<x>> \o o : o \in orders(S \ {x})} : x \in S}

\* importTracker, .txt branch: the possible outcomes; the persons are
\* appended in the iteration order of an unordered map
importTrackerTxt(store, file) ==
    LET d == readTxt(file, 1, FALSE, FALSE, 1, << >>)
        nrs == {k[1] : k \in DOMAIN d.personData}
    IN  IF ~d.ok THEN {Imported(file, "duplicate", store, 0, 0)}
        ELSE {Imported(file, "imported",
                       store \o [i \in 1..Len(o) |-> txtPerson(d.personData, o[i])],
                       0, Len(o)) : o \in orders(nrs)}

\* the records the files below are made of: persons 1 and 2, frames 0 and 1
TxtRecords == {TxtRecord(1, 0, <<1, 0, 2>>), TxtRecord(1, 1, <<1, 0, 2>>), TxtRecord(2, 0, <<1, 0, 2>>)}

MaxLines == 3

\* .txt files of up to MaxLines records without a header, and of one record
\* under a header giving cm
TxtFiles ==
    UNION {[1..n -> TxtRecords] : n \in 1..MaxLines}
    \cup {<<TxtComment(TRUE), r>> : r \in TxtRecords}

\* the longest of the .txt files with comment lines between the records
MaxTxtLines == 4

\* the lines these files are made of: comments that name cm or do not, and
\* records of person 1 at frames 0, 1, 2 and of person 2 at frame 0, each
\* with coordinates of its own
TxtLines ==
    {TxtComment(TRUE), TxtComment(FALSE)}
    \cup {TxtRecord(1, f, <<100 * (10 + f), 0, 200>>) : f \in 0 .. 2}
    \cup {TxtRecord(2, 0, <<2000, 0, 200>>)}

TxtLineFiles == UNION {[1..n -> TxtLines] : n \in 1..MaxTxtLines}

(***************************************************************************)
(* exportTracker writes a named file: the data go to a temporary file,     *)
(* which is copied to the destination                                      *)
(***************************************************************************)
\* the destinations the user can name, and a name with no file
FileNames == {"a.trc", "b.txt"}
File(lines) == [exists |-> TRUE, lines |-> lines]
NoFile == [exists |-> FALSE, lines |-> << >>]

\* dest.endsWith(".trc")
endsWithTrc(dest) == dest = "a.trc"

\* the lines of the person with number nr in a .txt export: number, frame,
\* position and height
txtLinesOf(person, nr) ==
    LET first == firstFrame(person)
    IN  [k \in 1 .. Cardinality(framesOf(person)) |->
            TxtRecord(nr, first + k - 1,
                      <<person.pts[first + k - 1].pos[1], person.pts[first + k - 1].pos[2],
                        person.height>>)]

\* exportTracker, .txt branch: what is written to the temporary file
RECURSIVE exportTxtFrom(_, _)
exportTxtFrom(store, i) ==
    IF i > Len(store) THEN << >>
    ELSE txtLinesOf(store[i], i) \o exportTxtFrom(store, i + 1)

\* what exportTracker writes to the temporary file for dest
written(store, dest) ==
    IF endsWithTrc(dest) THEN exportTracker(store) ELSE exportTxtFrom(store, 1)

\* the disk after if(QFile::exists(dest)) QFile::remove(dest); removed says
\* whether the file system let the file go
afterRemove(disk, dest, removed) ==
    IF disk[dest].exists /\ removed THEN [disk EXCEPT ![dest] = NoFile] ELSE disk

\* QFile::copy(dest): it does not overwrite; copied says whether the file
\* system let the copy be written
copyDone(disk, dest, copied) == ~disk[dest].exists /\ copied

\* history: an export to dest; existed: dest was a file before; outcome:
\* "none", "noTemporary", "copied", "failed"
Export(dest, existed, outcome) == [dest |-> dest, existed |-> existed, outcome |-> outcome]
NoExport == Export("", FALSE, "none")

\* history of trackAll: step is the step taken last ("none", "start",
\* "forward", "jump", "backward", "restore", "cancel"), polled whether it read
\* the cancellation flag, advanced whether it moved the player by one frame,
\* from the position before the step, target the frame a jump asked for
TrackAllStep(step, polled, advanced, from, target) ==
    [step |-> step, polled |-> polled, advanced |-> advanced, from |-> from, target |-> target]
NoTrackAll == TrackAllStep("none", FALSE, FALSE, 0, 0)

\* how a run of trackAll went; forward, backward: "none" (the loop was not
\* entered or has not ended), "complete" (it ended because the player had no
\* further frame), "cancelled"; optimizeColor: the number of its calls
TrackAllRun(forward, backward, optimizeColor) ==
    [forward |-> forward, backward |-> backward, optimizeColor |-> optimizeColor]
NoTrackAllRun == TrackAllRun("none", "none", 0)

\* how a loop ended
loopEnd(canceled) == IF canceled THEN "cancelled" ELSE "complete"

(***************************************************************************)
(* Actions of the edit specification                                       *)
(***************************************************************************)
InitProgram ==
    /\ persons = << >>
    /\ currentFrame = 0
    /\ lastOp = Op("none", NoResult, NoPos, -1, 0, "none", {})
    /\ imageLoaded = FALSE
    /\ semaphore = 1
    /\ running = << >>
    /\ mTrackChanged = TRUE
    /\ mRecognitionChanged = TRUE
    /\ changedFilters = {}
    /\ lastRecoFrame = NoRecoFrame
    /\ tracked = {}
    /\ trackNumberNow = 0
    /\ recoNumberNow = 0
    /\ lastUpd = NoUpd
    /\ trcFile = << >>
    /\ trcVersion = 0
    /\ cameraAltitude = SetMin(Altitudes)
    /\ lastImport = NoImport
    /\ onlineTrackingChecked = FALSE
    /\ performRecognitionChecked = FALSE
    /\ mAutoBackTrack = TRUE
    /\ trackAllPc = "idle"
    /\ memPos = 0
    /\ memCheckState = FALSE
    /\ memRecoState = FALSE
    /\ wasCanceled = FALSE
    /\ lastTrackAll = NoTrackAll
    /\ mAutoTrackOptimizeColor = FALSE
    /\ trackAllRun = NoTrackAllRun
    /\ mHeadSize = setHeadSize(-1, SetMin(Altitudes))
    /\ lastHeadSize = NoHeadSize
    /\ trackShowOnlyNrList = << >>
    /\ lastSelection = NoSelection
    /\ files = [name \in FileNames |-> NoFile]
    /\ mTrcFileName = ""
    /\ lastExport = NoExport

\* the state after construction
Init ==
    /\ InitProgram
    /\ versionCheck = NoVersionCheck
    /\ roiCall = NoRoiCall

SkipToFrameWheel(delta) ==
    /\ skipToFrameWheel(currentFrame, delta) \in Frames
    /\ currentFrame' = skipToFrameWheel(currentFrame, delta)
    /\ lastOp' = Op("skipToFrame", NoResult, NoPos, -1, 0, "none", {})
    /\ UNCHANGED persons
    /\ UNCHANGED <<updateVars, ioVars, queryVars>>

AddOrMoveManualTrackPoint(pos, w) ==
    \E r \in addOrMoveManualTrackPoint(persons, pos, currentFrame, w) :
        /\ withinBounds(r.store)
        /\ persons' = r.store
        /\ lastOp' = Op("addManual", r, pos, ManualQual, 0, "none", getPedestrianUserSelection(w))
        /\ UNCHANGED currentFrame
        /\ UNCHANGED <<updateVars, ioVars, queryVars>>

\* the store call of the recognition step, mPersonStorage.addPoints(persList, frameNum, ...)
AddPoints(persList) ==
    \E r \in addPoints(persons, persList, currentFrame) :
        /\ withinBounds(r.store)
        /\ persons' = r.store
        /\ lastOp' = IF persList = << >> THEN Op("addPoints", r, NoPos, -1, 0, "none", {})
                      ELSE Op("addPoints", r, persList[Len(persList)].pos, persList[Len(persList)].qual,
                              0, "none", {})
        /\ UNCHANGED currentFrame
        /\ UNCHANGED <<updateVars, ioVars, queryVars>>

DeleteTrackPoint(pos, direction, w) ==
    \E r \in deleteTrackPoint(persons, pos, direction, currentFrame, w) :
        /\ persons' = r.store
        /\ lastOp' = Op("delPoint", r, pos, -1, IF r.pers = 0 THEN 0 ELSE direction, "none",
                        getPedestrianUserSelection(w))
        /\ UNCHANGED currentFrame
        /\ UNCHANGED <<updateVars, ioVars, queryVars>>

DeleteTrackPointAll(direction) ==
    /\ persons' = deleteTrackPointAll(persons, direction, currentFrame)
    /\ lastOp' = Op("delPointAll", NoResult, NoPos, -1, 0, direction, {})
    /\ UNCHANGED currentFrame
    /\ UNCHANGED <<updateVars, ioVars, queryVars>>

SplitTrackPerson(pos, w) ==
    \E r \in splitTrackPerson(persons, pos, currentFrame, w) :
        /\ withinBounds(r.store)
        /\ persons' = r.store
        /\ lastOp' = Op("splitPersonAt", r, pos, -1, 0, "none", {})
        /\ UNCHANGED currentFrame
        /\ UNCHANGED <<updateVars, ioVars, queryVars>>

Next ==
    \/ \E delta \in {-1, 1} : SkipToFrameWheel(delta)
    \/ \E pos \in {<<2, 0>>}, w \in UserSelections : AddOrMoveManualTrackPoint(pos, w)
    \/ \E persList \in {<<p>> : p \in RecoPoints} \cup {<< >>} : AddPoints(persList)
    \/ \E pos \in ClickPos, direction \in {-1, 0, 1}, w \in UserSelections : DeleteTrackPoint(pos, direction, w)
    \/ \E direction \in {"Previous", "Following", "Whole"} : DeleteTrackPointAll(direction)
    \/ \E pos \in ClickPos, w \in UserSelections : SplitTrackPerson(pos, w)

Spec == Init /\ [][Next]_vars

(***************************************************************************)
(* Actions of the update specification                                     *)
(***************************************************************************)
\* updateImage(bool imageChanged) called while the animation is at frameNum.
\* The body runs to qApp->processEvents() (or, after a border change, to its
\* end) in one step; UpdateImageReturn is the rest of it.
\* an updateImage that keeps the store when the calibration changed
keepOnCalibChange(store, chg) == store

\* updateImage: the track list is deleted if the intrinsic parameters changed
clearOnCalibChange(store, chg) ==
    IF "calib" \in chg /\ nbPersons(store) > 0 THEN clear(store) ELSE store

updateImage(imageChanged, frameNum, c, trackList, persList) ==
    LET g == tryAcquire(semaphore)
    IN  IF ~(imageLoaded /\ g.ok)
        THEN /\ lastUpd' = Upd("dropped", imageChanged, "no")
             /\ UNCHANGED <<persons, semaphore, running, mTrackChanged, mRecognitionChanged,
                            changedFilters, lastRecoFrame, tracked, numberVars, trackAllVars, ioVars, queryVars>>
        ELSE LET chg == changedFilters
                 cleared == clearOnCalibChange(persons, chg)
                 doTrack == trackCondition(mTrackChanged, imageChanged, c.onlineTracking)
                 doReco == recoCondition(lastRecoFrame, c.recoStep, frameNum, imageChanged,
                                         c.cameraLiveStream, chg, mRecognitionChanged)
                 afterReco == trackThenRecognise(cleared, doTrack, doReco /\ c.performRecognition,
                                                 trackList, persList, frameNum, getPedestriansToTrack(c))
             IN  \E t \in afterReco :
                    /\ withinBounds(t.store)
                    /\ persons' = t.store
                    /\ changedFilters' = {}
                    /\ mTrackChanged' = IF doTrack THEN FALSE ELSE mTrackChanged
                    /\ mRecognitionChanged' = IF doReco /\ c.performRecognition THEN FALSE
                                              ELSE mRecognitionChanged
                    /\ lastRecoFrame' = IF doReco THEN frameNum ELSE lastRecoFrame
                    /\ tracked' = IF doTrack THEN tracked \cup {frameNum} ELSE tracked
                    /\ trackNumberNow' = t.anz
                    /\ recoNumberNow' = IF doReco /\ c.performRecognition THEN Len(persList) ELSE 0
                    /\ lastUpd' = UpdRun(imageChanged,
                                         IF ~doTrack THEN "no"
                                         ELSE IF frameNum \in tracked THEN "again" ELSE "first",
                                         c, doReco /\ c.performRecognition)
                    /\ IF "border" \in chg
                       THEN /\ semaphore' = release(g.sem)
                            /\ UNCHANGED running
                       ELSE /\ Len(running) < MaxDepth
                            /\ semaphore' = g.sem
                            /\ running' = Append(running, frameNum)

\* updateSequence: the image of the opened sequence exists, the player is at frame 0
OpenSequence ==
    /\ imageLoaded' = TRUE
    /\ persons' = clear(persons)
    /\ currentFrame' = 0
    /\ lastUpd' = Upd("opened", FALSE, "no")
    /\ lastOp' = Op("openSequence", NoResult, NoPos, -1, 0, "none", {})
    /\ UNCHANGED <<semaphore, running, mTrackChanged, mRecognitionChanged,
                   changedFilters, lastRecoFrame, tracked, numberVars, trackAllVars, ioVars, queryVars>>

\* updateImage(const cv::Mat &img): the animation is at frame f and its image is
\* delivered (the sequence is played forwards, or the frame shown is read again)
DeliverFrame(f, c, trackList, persList) ==
    /\ imageLoaded
    /\ f \in Frames
    /\ currentFrame' = f
    /\ updateImage(TRUE, f, c, trackList, persList)
    /\ UNCHANGED <<lastOp, imageLoaded, ioVars, trackAllVars, queryVars>>

\* updateImageCallback: a control asks for an update of the frame shown
UpdateImageCallback(c, trackList, persList) ==
    /\ updateImage(FALSE, currentFrame, c, trackList, persList)
    /\ UNCHANGED <<currentFrame, lastOp, imageLoaded, ioVars, trackAllVars, queryVars>>

\* the rest of updateImage after processEvents
UpdateImageReturn ==
    /\ running # << >>
    /\ running' = SubSeq(running, 1, Len(running) - 1)
    /\ semaphore' = release(semaphore)
    /\ lastUpd' = Upd("returned", FALSE, "no")
    /\ UNCHANGED <<persons, currentFrame, lastOp, imageLoaded, mTrackChanged, mRecognitionChanged,
                   changedFilters, lastRecoFrame, tracked, numberVars, trackAllVars, ioVars, queryVars>>

SetTrackChanged ==
    /\ mTrackChanged' = TRUE
    /\ lastUpd' = NoUpd
    /\ UNCHANGED <<persons, currentFrame, lastOp, imageLoaded, semaphore, running,
                   mRecognitionChanged, changedFilters, lastRecoFrame, tracked, numberVars, trackAllVars, ioVars, queryVars>>

SetRecognitionChanged ==
    /\ mRecognitionChanged' = TRUE
    /\ lastUpd' = NoUpd
    /\ UNCHANGED <<persons, currentFrame, lastOp, imageLoaded, semaphore, running,
                   mTrackChanged, changedFilters, lastRecoFrame, tracked, numberVars, trackAllVars, ioVars, queryVars>>

\* a parameter of filter k is changed
FilterChanged(k) ==
    /\ changedFilters = {}
    /\ changedFilters' = {k}
    /\ lastUpd' = NoUpd
    /\ UNCHANGED <<persons, currentFrame, lastOp, imageLoaded, semaphore, running,
                   mTrackChanged, mRecognitionChanged, lastRecoFrame, tracked, numberVars, trackAllVars, ioVars, queryVars>>

\* the sequence is opened once
\* the values a call can find in S: a call that is dropped reads neither the
\* controls nor what tracker and recognition would deliver, so that one value
\* stands for all
readBy(S) == IF imageLoaded /\ semaphore > 0 THEN S ELSE {CHOOSE x \in S : TRUE}

NextUpdate ==
    \/ ~imageLoaded /\ OpenSequence
    \/ \E f \in {currentFrame, currentFrame + 1}, c \in readBy(Controls),
          trackList \in readBy(TrackLists), persList \in readBy(RecoLists) :
             DeliverFrame(f, c, trackList, persList)
    \/ \E c \in readBy(Controls), trackList \in readBy(TrackLists), persList \in readBy(RecoLists) :
          UpdateImageCallback(c, trackList, persList)
    \/ UpdateImageReturn
    \/ SetTrackChanged
    \/ SetRecognitionChanged
    \/ \E k \in FilterNames : FilterChanged(k)

SpecUpdate == Init /\ [][NextUpdate]_vars

(***************************************************************************)
(* Properties of the store under the edit handlers                         *)
(***************************************************************************)
\* what the store holds for person i at frame f, and the point as stored
storedAt(store, i, f) == store[i].pts[f]
asStored(pos, q) == TrackPoint(pos, IF q > MaxQual THEN MaxQual ELSE q)

\* the last call was an addPoint that found person i holding a point at the frame
addHitExisting(i) ==
    /\ lastOp'.op \in {"addManual", "addPoints"}
    /\ lastOp'.q2 # -1
    /\ i = lastOp'.pers
    /\ i \in 1 .. Len(persons)
    /\ currentFrame \in framesOf(persons[i])

\* C1: every stored person holds a point for exactly the frames
\* firstFrame .. lastFrame: no frame inside a person's range is missing.
C1_FramesContiguous ==
    \A i \in 1 .. Len(persons) :
        framesOf(persons[i]) # {} =>
            framesOf(persons[i]) = firstFrame(persons[i]) .. lastFrame(persons[i])

C1_Witness ==
    /\ lastOp.op \in {"delPoint", "splitPersonAt"}
    /\ lastOp.outcome \in {"trimmed", "split"}
    /\ \E i \in 1 .. Len(persons) : Cardinality(framesOf(persons[i])) >= 2

\* C2: addPoint at a frame where the destination person stores a point of
\* quality q1 replaces it by the new point (quality q2) iff q2 > q1; when
\* q2 <= q1 the stored position and quality are unchanged.
C2_ReplaceIffBetter ==
    [][\A i \in 1 .. Len(persons) :
          addHitExisting(i) =>
              /\ Len(persons') = Len(persons)
              /\ lastOp'.q2 > storedAt(persons, i, currentFrame).qual
                    => storedAt(persons', i, currentFrame) = asStored(lastOp'.pos, lastOp'.q2)
              /\ lastOp'.q2 <= storedAt(persons, i, currentFrame).qual
                    => storedAt(persons', i, currentFrame) = storedAt(persons, i, currentFrame)]_vars

\* a recognised point of quality 100 has replaced a stored one of quality 50
C2_Witness ==
    /\ lastOp.op = "addPoints"
    /\ lastOp.outcome = "replaced"
    /\ lastOp.q1 = 50 /\ lastOp.q2 = 100
    /\ storedAt(persons, lastOp.pers, currentFrame) = TrackPoint(lastOp.pos, 100)

\* C3: every stored quality lies in 0 .. 100; a manual point is submitted
\* with quality 110, replaces the stored point whatever its quality (100
\* included) and is stored with quality 100.
C3_ManualSentinelClamped ==
    [][/\ \A i \in 1 .. Len(persons') : \A f \in framesOf(persons'[i]) :
              storedAt(persons', i, f).qual \in 0 .. MaxQual
       /\ \A i \in 1 .. Len(persons) :
              (addHitExisting(i) /\ lastOp'.op = "addManual")
                  => storedAt(persons', i, currentFrame) = TrackPoint(lastOp'.pos, 100)]_vars

C3_Witness ==
    /\ lastOp.op = "addManual"
    /\ lastOp.outcome = "replaced"
    /\ lastOp.q1 = 100
    /\ storedAt(persons, lastOp.pers, currentFrame) = TrackPoint(lastOp.pos, 100)

\* C4: addPoint with a non-empty eligible set modifies no person outside the
\* set; if no eligible person accepts the point the store is unchanged (no
\* person is created, the point is not stored).
C4_OnlyEligibleModified ==
    [][(lastOp'.op = "addManual" /\ lastOp'.elig # {}) =>
          /\ Len(persons') = Len(persons)
          /\ \A i \in 1 .. Len(persons) : (i - 1) \notin lastOp'.elig => persons'[i] = persons[i]
          /\ (\A i \in 1 .. Len(persons) : (i - 1) \in lastOp'.elig => persons'[i] = persons[i])
                => persons' = persons
          /\ lastOp'.pers = 0 => persons' = persons]_vars

C4_Witness ==
    /\ lastOp.op = "addManual"
    /\ lastOp.elig # {}
    /\ lastOp.outcome = "refused"
    /\ persons # << >>

\* the store without its person i
without(store, i) == [j \in 1 .. Len(store) - 1 |-> IF j < i THEN store[j] ELSE store[j + 1]]

\* the last call was a delPoint / splitPersonAt that matched person i
delMatched(i) == lastOp'.op = "delPoint" /\ i = lastOp'.pers /\ i # 0
splitMatched(i) == lastOp'.op = "splitPersonAt" /\ i = lastOp'.pers /\ i # 0

\* C5: delPoint at frame f on the matched person with range a..b: direction
\* Previous (-1) leaves exactly f+1..b, Following (1) exactly a..f-1, Whole
\* (0) removes the person; a person left without a frame is removed.
C5_DelPointDirection ==
    [][\A i \in 1 .. Len(persons) :
          delMatched(i) =>
              LET f == currentFrame
                  a == firstFrame(persons[i])
                  b == lastFrame(persons[i])
                  left == CASE lastOp'.direction = -1 -> (f + 1) .. b
                            [] lastOp'.direction = 1 -> a .. (f - 1)
                            [] OTHER -> {}
              IN  /\ a <= f /\ f <= b
                  /\ IF left = {}
                     THEN persons' = without(persons, i)
                     ELSE /\ Len(persons') = Len(persons)
                          /\ framesOf(persons'[i]) = left]_vars

\* frames 0 .. 1 of a person were deleted at frame 1, frame 2 is left
C5_Witness ==
    /\ lastOp.op = "delPoint"
    /\ lastOp.direction = -1
    /\ lastOp.outcome = "trimmed"
    /\ currentFrame > 0
    /\ firstFrame(persons[lastOp.pers]) = currentFrame + 1

\* C6: delPoint changes only the matched person: its points outside the
\* requested direction keep frame, position and quality, every other person
\* is unchanged; when no eligible point lies within the distance threshold
\* the whole store is unchanged.
C6_DelPointFrame ==
    [][lastOp'.op = "delPoint" =>
          LET f == currentFrame
              i == lastOp'.pers
              gone == Len(persons') = Len(persons) - 1
              outside(g) == \/ lastOp'.direction = -1 /\ g > f
                            \/ lastOp'.direction = 1 /\ g < f
              inReach(j) == /\ lastOp'.elig = {} \/ (j - 1) \in lastOp'.elig
                            /\ f \in framesOf(persons[j])
                            /\ Near(storedAt(persons, j, f).pos, lastOp'.pos)
          IN  /\ (\A j \in 1 .. Len(persons) : ~inReach(j)) => persons' = persons
              /\ i # 0 =>
                    /\ inReach(i)
                    /\ gone \/ Len(persons') = Len(persons)
                    /\ \A j \in 1 .. Len(persons) :
                          j # i => persons'[IF gone /\ j > i THEN j - 1 ELSE j] = persons[j]
                    /\ \A g \in framesOf(persons[i]) :
                          outside(g) => /\ ~gone
                                        /\ g \in framesOf(persons'[i])
                                        /\ storedAt(persons', i, g) = storedAt(persons, i, g)]_vars

\* a directional delete next to a second person
C6_Witness ==
    /\ lastOp.op = "delPoint"
    /\ lastOp.outcome = "trimmed"
    /\ Len(persons) = 2

\* C7: splitPersonAt at a frame f with a < f < b leaves the person the frames
\* a..f-1 and creates one new person, at an index no person had, with the
\* frames f..b and the same points; the number of points is unchanged and
\* the number of persons grows by one.
C7_SplitInside ==
    [][\A i \in 1 .. Len(persons) :
          (/\ splitMatched(i)
           /\ firstFrame(persons[i]) < currentFrame
           /\ currentFrame < lastFrame(persons[i])) =>
              LET f == currentFrame
                  a == firstFrame(persons[i])
                  b == lastFrame(persons[i])
                  n == Len(persons)
              IN  /\ Len(persons') = n + 1
                  /\ framesOf(persons'[i]) = a .. (f - 1)
                  /\ framesOf(persons'[n + 1]) = f .. b
                  /\ \A g \in a .. b :
                        storedAt(persons', IF g < f THEN i ELSE n + 1, g) = storedAt(persons, i, g)
                  /\ \A j \in 1 .. n : j # i => persons'[j] = persons[j]
                  /\ nbPoints(persons') = nbPoints(persons)]_vars

C7_Witness ==
    /\ lastOp.op = "splitPersonAt"
    /\ lastOp.outcome = "split"
    /\ Len(persons) >= 2
    /\ lastFrame(persons[lastOp.pers]) = currentFrame - 1
    /\ firstFrame(persons[Len(persons)]) = currentFrame
    /\ lastFrame(persons[Len(persons)]) > currentFrame

\* C8: splitPersonAt at the first or at the last frame of the matched person
\* is a no-op: no person is created, every person is unchanged.
C8_SplitBoundaryNoOp ==
    [][\A i \in 1 .. Len(persons) :
          (/\ splitMatched(i)
           /\ \/ currentFrame = firstFrame(persons[i])
              \/ currentFrame = lastFrame(persons[i])) =>
              persons' = persons]_vars

C8_Witness ==
    /\ lastOp.op = "splitPersonAt"
    /\ lastOp.outcome = "boundary"
    /\ firstFrame(persons[lastOp.pers]) < lastFrame(persons[lastOp.pers])
    /\ currentFrame = lastFrame(persons[lastOp.pers])

(***************************************************************************)
(* The update pipeline together with the manual edit handlers: the view    *)
(* signals are connected to the handlers directly, so a handler runs       *)
(* whenever its event is dispatched, also by the processEvents call of a   *)
(* running updateImage.                                                    *)
(***************************************************************************)
\* the control states and the pixel of the edits in this specification
EventControls == {Control(TRUE, FALSE, Selection(FALSE, 1, FALSE, FALSE, {}), TRUE, 1, FALSE)}
EventSelections == {Selection(FALSE, 1, FALSE, FALSE, {})}
EventPos == {<<1, 0>>}

NextEvents ==
    \/ OpenSequence
    \/ \E f \in {currentFrame, currentFrame + 1}, c \in EventControls,
          trackList \in TrackLists, persList \in RecoLists : DeliverFrame(f, c, trackList, persList)
    \/ UpdateImageReturn
    \/ FilterChanged("calib")
    \/ \E pos \in EventPos, w \in EventSelections : AddOrMoveManualTrackPoint(pos, w)
    \/ \E pos \in EventPos, direction \in {-1, 0, 1}, w \in EventSelections : DeleteTrackPoint(pos, direction, w)
    \/ \E direction \in {"Previous", "Following", "Whole"} : DeleteTrackPointAll(direction)
    \/ \E pos \in EventPos, w \in EventSelections : SplitTrackPerson(pos, w)

SpecEvents == Init /\ [][NextEvents]_vars

(***************************************************************************)
(* The selection specification: stores built by manual inserts and the     *)
(* recognition, searched by skipToFrameFromTrajectory.                     *)
(***************************************************************************)
SkipToFrameFromTrajectory(pos, w, before, after) ==
    \E res \in trajectoryMatches(persons, pos, currentFrame, w, before, after) :
        /\ currentFrame' = skipToFrameFromTrajectory(res, currentFrame)
        /\ lastOp' = Op("skipToTrajectory",
                        Result(persons, IF Cardinality(res) = 1 THEN (CHOOSE r \in res : TRUE).pers ELSE 0, -1,
                               CASE Cardinality(res) = 0 -> "nomatch"
                                 [] Cardinality(res) = 1 -> "one"
                                 [] OTHER -> "ambiguous"),
                        pos, -1, 0, "none", getPedestrianUserSelection(w))
        /\ UNCHANGED persons
        /\ UNCHANGED <<updateVars, ioVars, queryVars>>

NextSelect ==
    \/ \E delta \in {-1, 1} : SkipToFrameWheel(delta)
    \/ \E pos \in {<<2, 0>>}, w \in EventSelections : AddOrMoveManualTrackPoint(pos, w)
    \/ \E persList \in {<<p>> : p \in RecoPoints} : AddPoints(persList)
    \/ \E pos \in SelectPos, w \in UserSelections, before \in ShowRange, after \in ShowRange :
          SkipToFrameFromTrajectory(pos, w, before, after)

SpecSelect == Init /\ [][NextSelect]_vars

(***************************************************************************)
(* Export and import of the store                                          *)
(***************************************************************************)
\* exportTracker, .trc branch
ExportTracker ==
    /\ trcVersion' = 4
    /\ trcFile' = exportTracker(persons)
    /\ lastOp' = Op("exportTracker", NoResult, NoPos, -1, 0, "none", {})
    /\ UNCHANGED <<persons, currentFrame, cameraAltitude, lastImport>>
    /\ UNCHANGED <<updateVars, queryVars>>

\* importTracker, .trc branch, of an existing file
ImportTracker(file) ==
    /\ Len(file) > 0
    /\ LET r == importTracker(persons, file, trcVersion)
       IN  /\ withinBounds(r.store)
           /\ persons' = r.store
           /\ trcVersion' = r.version
           /\ trcFile' = IF r.outcome = "imported" THEN file ELSE trcFile
           /\ lastImport' = ImportOf(r)
    /\ mTrackChanged' = TRUE
    /\ lastOp' = Op("importTracker", NoResult, NoPos, -1, 0, "none", {})
    /\ UNCHANGED <<currentFrame, imageLoaded, semaphore, running, mRecognitionChanged,
                   changedFilters, lastRecoFrame, tracked, numberVars, trackAllVars, lastUpd, cameraAltitude,
                   queryVars>>

\* exportTracker, .txt branch: the heights are recalculated if the user
\* asked for it and the calibration is 2D (getCalibCoordDimension() != 0)
ExportTrackerTxt(recalcHeightChecked, calibCoordDimension) ==
    LET recalc == recalcHeightChecked /\ calibCoordDimension # 0
        again == lastOp.op = "exportTrackerTxt" /\ lastOp.outcome \in {"recalc", "recalcAgain"}
    IN  /\ persons' = IF recalc THEN recalcHeight(persons, cameraAltitude) ELSE persons
        /\ lastOp' = Op("exportTrackerTxt",
                        Result(persons, 0, -1, IF ~recalc THEN "kept"
                                               ELSE IF again THEN "recalcAgain" ELSE "recalc"),
                        NoPos, -1, 0, "none", {})
        /\ UNCHANGED currentFrame
        /\ UNCHANGED <<updateVars, ioVars, queryVars>>

\* the user sets the camera altitude
SetCameraAltitude(altitude) ==
    /\ cameraAltitude' = altitude
    /\ lastOp' = Op("setCameraAltitude", NoResult, NoPos, -1, 0, "none", {})
    /\ UNCHANGED <<persons, currentFrame, trcFile, trcVersion, lastImport>>
    /\ UNCHANGED <<updateVars, queryVars>>

NextHeight ==
    \/ \E persList \in {<<p>> : p \in RecoPoints} : AddPoints(persList)
    \/ SkipToFrameWheel(1)
    \/ \E altitude \in Altitudes : SetCameraAltitude(altitude)
    \/ \E recalcHeightChecked \in BOOLEAN, calibCoordDimension \in {0, 1} :
          ExportTrackerTxt(recalcHeightChecked, calibCoordDimension)

SpecHeight == Init /\ [][NextHeight]_vars

\* importTracker, .txt branch, of an existing file
ImportTrackerTxt(file) ==
    /\ \E r \in importTrackerTxt(persons, file) :
          /\ withinBounds(r.store)
          /\ persons' = r.store
          /\ lastImport' = ImportOf(r)
          /\ trcFile' = IF r.outcome = "imported" THEN file ELSE trcFile
    /\ mTrackChanged' = TRUE
    /\ lastOp' = Op("importTrackerTxt", NoResult, NoPos, -1, 0, "none", {})
    /\ UNCHANGED <<currentFrame, imageLoaded, semaphore, running, mRecognitionChanged,
                   changedFilters, lastRecoFrame, tracked, numberVars, trackAllVars, lastUpd,
                   trcVersion, cameraAltitude, queryVars>>

NextTxt ==
    \/ DeleteTrackPointAll("Whole")
    \/ \E file \in TxtFiles : ImportTrackerTxt(file)

SpecTxt == Init /\ [][NextTxt]_vars

\* one file is imported into a store that holds what was recognised before
NextTxtLines ==
    \/ AddPoints(<<TrackPoint(<<1, 0>>, 100)>>)
    \/ SkipToFrameWheel(1)
    \/ lastImport = NoImport /\ \E file \in TxtLineFiles : ImportTrackerTxt(file)

SpecTxtLines == Init /\ [][NextTxtLines]_vars

(***************************************************************************)
(* trackAll: the whole sequence is tracked forwards from the current frame *)
(* and, with mAutoBackTrack, backwards to its beginning.  The player is    *)
(* moved by frameForward, frameBackward and skipToFrame; each delivers the *)
(* frame it moved to by updateImage.                                       *)
(***************************************************************************)
\* mAnimation->getNumFrames() of the sequence trackAll runs on
NumFrames == 7

\* the frames trackAll jumps beyond the largest first frame
BackTrackOffset == 5

\* Player::frameForward, frameBackward: FALSE at the end of the sequence
frameForward(pos) == IF pos < NumFrames - 1 THEN [ok |-> TRUE, pos |-> pos + 1] ELSE [ok |-> FALSE, pos |-> pos]
frameBackward(pos) == IF pos > 0 THEN [ok |-> TRUE, pos |-> pos - 1] ELSE [ok |-> FALSE, pos |-> pos]

\* Player::skipToFrame(n): the position after it; a frame the sequence
\* does not have leaves the player where it is
playerSkipToFrame(pos, n) == IF n \in 0..(NumFrames - 1) THEN n ELSE pos

\* the largest first frame of all persons, -1 for the empty store
largestFirstFrame(store) ==
    IF nbPersons(store) = 0 THEN -1 ELSE SetMax({firstFrame(store[i]) : i \in 1..nbPersons(store)})

\* a loop that does not look at the cancellation flag
continuesCanceled(canceled, moved) == moved

\* one turn of a loop of trackAll: the player is moved on only if the
\* progress dialog was not cancelled and the player has a frame to go to
continues(canceled, moved) == ~canceled /\ moved

\* a jump to the largest first frame itself
backTrackTargetNoOffset(store) == largestFirstFrame(store)

\* the frame the backward pass is started from
backTrackTarget(store) == largestFirstFrame(store) + BackTrackOffset

Restored(reco, online, pos) == [reco |-> reco, online |-> online, pos |-> pos]

\* an end of trackAll that leaves the player where the passes left it
trackAllEndNoSkip(recoState, checkState, pos, current) == Restored(recoState, checkState, current)

\* the end of trackAll: the settings and the position saved at its start
trackAllEnd(recoState, checkState, pos, current) ==
    Restored(recoState, checkState, playerSkipToFrame(current, pos))

\* the controls updateImage reads while trackAll runs
trackAllControl(online, reco) ==
    Control(online, FALSE, Selection(FALSE, 1, FALSE, FALSE, {}), reco, 1, FALSE)

\* the player was moved from currentFrame to pos: the frame is delivered
playerMoved(pos, online, reco, persList) ==
    /\ currentFrame' = pos
    /\ IF pos # currentFrame
       THEN updateImage(TRUE, pos, trackAllControl(online, reco), << >>, persList) /\ UNCHANGED imageLoaded
       ELSE UNCHANGED <<persons, pipelineVars>>

\* an optimizeColor that is left out unless both passes ran to their end
invokesOptimizeColorFullRun(autoOptimize, run) ==
    autoOptimize /\ run.forward = "complete" /\ run.backward = "complete"

\* trackAll: if(mAutoTrackOptimizeColor) mPersonStorage.optimizeColor()
invokesOptimizeColor(autoOptimize, run) == autoOptimize

\* the user sets the controls trackAll saves; the project file sets
\* mAutoBackTrack and mAutoTrackOptimizeColor
SetTrackAllControls(online, reco, back, optimize) ==
    /\ trackAllPc = "idle"
    /\ onlineTrackingChecked' = online
    /\ performRecognitionChecked' = reco
    /\ mAutoBackTrack' = back
    /\ mAutoTrackOptimizeColor' = optimize
    /\ UNCHANGED <<trackAllPc, memPos, memCheckState, memRecoState, wasCanceled, lastTrackAll,
                   trackAllRun>>
    /\ UNCHANGED <<persons, currentFrame, lastOp, pipelineVars, ioVars, queryVars>>

\* trackAll is called: position and settings are saved, tracking and
\* recognition switched on
TrackAllStart ==
    /\ trackAllPc = "idle"
    /\ imageLoaded
    /\ running = << >>
    /\ memPos' = currentFrame
    /\ memCheckState' = onlineTrackingChecked
    /\ memRecoState' = performRecognitionChecked
    /\ onlineTrackingChecked' = TRUE
    /\ performRecognitionChecked' = TRUE
    /\ wasCanceled' = FALSE
    /\ trackAllPc' = "forward"
    /\ lastTrackAll' = TrackAllStep("start", FALSE, FALSE, currentFrame, currentFrame)
    /\ trackAllRun' = NoTrackAllRun
    /\ UNCHANGED <<mAutoBackTrack, mAutoTrackOptimizeColor, persons, currentFrame, lastOp, pipelineVars, ioVars, queryVars>>

\* one turn of the forward loop: the flag is polled, then frameForward
TrackAllForward(persList) ==
    /\ trackAllPc = "forward"
    /\ running = << >>
    /\ LET r == frameForward(currentFrame)
           go == continues(wasCanceled, r.ok)
       IN  /\ trackAllPc' = IF go THEN "forward" ELSE IF mAutoBackTrack THEN "jump" ELSE "restore"
           /\ lastTrackAll' = TrackAllStep("forward", TRUE, go, currentFrame, r.pos)
           /\ trackAllRun' = IF go THEN trackAllRun
                             ELSE [trackAllRun EXCEPT !.forward = loopEnd(wasCanceled)]
           /\ IF go THEN playerMoved(r.pos, onlineTrackingChecked, performRecognitionChecked, persList)
              ELSE UNCHANGED <<persons, currentFrame, pipelineVars>>
    /\ UNCHANGED <<onlineTrackingChecked, performRecognitionChecked, mAutoBackTrack,
                   mAutoTrackOptimizeColor, memPos, memCheckState, memRecoState, wasCanceled, lastOp, ioVars, queryVars>>

\* the jump between the passes: with tracking switched off the player skips
\* to the frame the backward pass starts from; recognition is switched off
TrackAllJump ==
    /\ trackAllPc = "jump"
    /\ running = << >>
    /\ LET target == backTrackTarget(persons)
       IN  /\ playerMoved(playerSkipToFrame(currentFrame, target), FALSE, performRecognitionChecked, << >>)
           /\ lastTrackAll' = TrackAllStep("jump", FALSE, FALSE, currentFrame, target)
    /\ UNCHANGED trackAllRun
    /\ onlineTrackingChecked' = TRUE
    /\ performRecognitionChecked' = FALSE
    /\ trackAllPc' = "backward"
    /\ UNCHANGED <<mAutoBackTrack, mAutoTrackOptimizeColor, memPos, memCheckState, memRecoState, wasCanceled, lastOp, ioVars, queryVars>>

\* one turn of the backward loop: the flag is polled, recognition is switched
\* on again at the frame after the one trackAll began at, then frameBackward
TrackAllBackward ==
    /\ trackAllPc = "backward"
    /\ running = << >>
    /\ LET r == frameBackward(currentFrame)
           go == continues(wasCanceled, r.ok)
           reco == IF ~wasCanceled /\ currentFrame = memPos + 1 THEN TRUE ELSE performRecognitionChecked
       IN  /\ trackAllPc' = IF go THEN "backward" ELSE "restore"
           /\ performRecognitionChecked' = reco
           /\ lastTrackAll' = TrackAllStep("backward", TRUE, go, currentFrame, r.pos)
           /\ trackAllRun' = IF go THEN trackAllRun
                             ELSE [trackAllRun EXCEPT !.backward = loopEnd(wasCanceled)]
           /\ IF go THEN playerMoved(r.pos, onlineTrackingChecked, reco, << >>)
              ELSE UNCHANGED <<persons, currentFrame, pipelineVars>>
    /\ UNCHANGED <<onlineTrackingChecked, mAutoBackTrack, mAutoTrackOptimizeColor, memPos, memCheckState, memRecoState,
                   wasCanceled, lastOp, ioVars, queryVars>>

\* the end of trackAll: optimizeColor if mAutoTrackOptimizeColor is set (it
\* leaves the positions as they are), then recognition as saved, a skip to
\* the saved position with tracking switched off, tracking as saved
TrackAllRestore ==
    /\ trackAllPc = "restore"
    /\ running = << >>
    /\ LET e == trackAllEnd(memRecoState, memCheckState, memPos, currentFrame)
       IN  /\ playerMoved(e.pos, FALSE, e.reco, << >>)
           /\ performRecognitionChecked' = e.reco
           /\ onlineTrackingChecked' = e.online
           /\ lastTrackAll' = TrackAllStep("restore", FALSE, FALSE, currentFrame, memPos)
    /\ trackAllRun' = IF invokesOptimizeColor(mAutoTrackOptimizeColor, trackAllRun)
                      THEN [trackAllRun EXCEPT !.optimizeColor = @ + 1]
                      ELSE trackAllRun
    /\ trackAllPc' = "idle"
    /\ UNCHANGED <<mAutoBackTrack, mAutoTrackOptimizeColor, memPos, memCheckState, memRecoState, wasCanceled, lastOp, ioVars, queryVars>>

\* the user presses "Abort tracking" in the progress dialog
CancelTrackAll ==
    /\ trackAllPc # "idle"
    /\ ~wasCanceled
    /\ wasCanceled' = TRUE
    /\ lastTrackAll' = TrackAllStep("cancel", FALSE, FALSE, currentFrame, currentFrame)
    /\ UNCHANGED <<onlineTrackingChecked, performRecognitionChecked, mAutoBackTrack, trackAllPc,
                   memPos, memCheckState, memRecoState, mAutoTrackOptimizeColor, trackAllRun>>
    /\ UNCHANGED <<persons, currentFrame, lastOp, pipelineVars, ioVars, queryVars>>

\* before trackAll: a sequence is opened, the user moves to a frame,
\* recognised points arrive and the controls are set; trackAll is called
\* once, and while it runs the main window is blocked
NextTrackAll ==
    \/ ~imageLoaded /\ OpenSequence
    \/ lastTrackAll = NoTrackAll /\ SkipToFrameWheel(1)
    \/ lastTrackAll = NoTrackAll /\ AddPoints(<<TrackPoint(<<1, 0>>, 100)>>)
    \/ \E online \in BOOLEAN, reco \in BOOLEAN, back \in BOOLEAN, optimize \in BOOLEAN :
          lastTrackAll = NoTrackAll /\ SetTrackAllControls(online, reco, back, optimize)
    \/ lastTrackAll = NoTrackAll /\ TrackAllStart
    \/ \E persList \in RecoLists : TrackAllForward(persList)
    \/ TrackAllJump
    \/ TrackAllBackward
    \/ TrackAllRestore
    \/ CancelTrackAll
    \/ UpdateImageReturn

SpecTrackAll == Init /\ [][NextTrackAll]_vars

(***************************************************************************)
(* The head size is asked for                                              *)
(***************************************************************************)
\* setHeadSize(hS)
SetHeadSize(hS) ==
    /\ mHeadSize' = setHeadSize(hS, cameraAltitude)
    /\ UNCHANGED <<editVars, updateVars, ioVars, lastHeadSize, trackShowOnlyNrList, lastSelection,
                   versionCheck, roiCall, fileVars>>

\* getHeadSize(pos, pers, frame)
GetHeadSize(pers, frame, dim, z, diff) ==
    /\ lastHeadSize' = HeadSizeCall(persons, pers, frame, dim, z, cameraAltitude, mHeadSize,
                          getHeadSize(persons, pers, frame, dim, z, diff, cameraAltitude, mHeadSize))
    /\ UNCHANGED <<editVars, updateVars, ioVars, mHeadSize, trackShowOnlyNrList, lastSelection,
                   versionCheck, roiCall, fileVars>>

NextHeadSize ==
    \/ AddPoints(<<TrackPoint(<<1, 0>>, 100)>>)
    \/ SkipToFrameWheel(1)
    \/ ExportTrackerTxt(TRUE, 1)
    \/ \E hS \in {-1, 10} : SetHeadSize(hS)
    \/ \E pers \in -1 .. MaxPersons, frame \in -1 .. MaxFrame :
          \/ \E diff \in ProjectedSizes : GetHeadSize(pers, frame, 0, -1, diff)
          \/ \E z \in CameraDistances : GetHeadSize(pers, frame, 1, z, 0)

SpecHeadSize == Init /\ [][NextHeadSize]_vars

(***************************************************************************)
(* The list of persons to show is typed and read                           *)
(***************************************************************************)
\* the user types a character into the "show only people list" field
TypeNrList(c) ==
    /\ Len(trackShowOnlyNrList) < MaxText
    /\ trackShowOnlyNrList' = Append(trackShowOnlyNrList, c)
    /\ UNCHANGED <<editVars, updateVars, ioVars, mHeadSize, lastHeadSize, lastSelection, versionCheck,
                   roiCall, fileVars>>

\* getPedestrianUserSelection(), with the control widget's two check boxes
\* and the number of the "show only" field
GetPedestrianUserSelection(showOnly, showOnlyNr, showOnlyList) ==
    /\ lastSelection' = readUserSelection(showOnly, showOnlyNr, showOnlyList, trackShowOnlyNrList)
    /\ UNCHANGED <<editVars, updateVars, ioVars, mHeadSize, lastHeadSize, trackShowOnlyNrList,
                   versionCheck, roiCall, fileVars>>

NextUserSelection ==
    \/ \E c \in Alphabet : TypeNrList(c)
    \/ \E showOnly \in BOOLEAN, showOnlyList \in BOOLEAN :
          GetPedestrianUserSelection(showOnly, 1, showOnlyList)

SpecUserSelection == Init /\ [][NextUserSelection]_vars

(***************************************************************************)
(* Two version strings are compared                                        *)
(***************************************************************************)
\* the program with two version strings at hand
InitVersion ==
    /\ InitProgram
    /\ \E q1 \in VersionTexts, q2 \in VersionTexts : versionCheck = VersionCheck(q1, q2, "none")
    /\ roiCall = NoRoiCall

\* newerThanVersion(q1, q2)
NewerThanVersion ==
    /\ versionCheck.outcome = "none"
    /\ versionCheck' = VersionCheck(versionCheck.q1, versionCheck.q2,
                                    newerThanVersion(versionCheck.q1, versionCheck.q2))
    /\ UNCHANGED <<editVars, updateVars, ioVars, mHeadSize, lastHeadSize, trackShowOnlyNrList,
                   lastSelection, roiCall, fileVars>>

NextVersion == NewerThanVersion

SpecVersion == InitVersion /\ [][NextVersion]_vars

(***************************************************************************)
(* A region of interest is cut to an image                                 *)
(***************************************************************************)
\* the program with an image and a region of interest at hand
InitRoi ==
    /\ InitProgram
    /\ versionCheck = NoVersionCheck
    /\ \E cols \in ImageSides, rows \in ImageSides, x \in RoiEdges, y \in RoiEdges,
          width \in RoiSides, height \in RoiSides, evenPixelNumber \in BOOLEAN :
          roiCall = RoiCall(cols, rows, QRect(x, y, width, height), evenPixelNumber, FALSE,
                            Rect(0, 0, 0, 0))

\* getRoi(img, roi, rect, evenPixelNumber)
GetRoi ==
    /\ ~roiCall.done
    /\ roiCall' = [roiCall EXCEPT !.done = TRUE,
                      !.rect = getRoi(roiCall.cols, roiCall.rows, roiCall.roi,
                                      roiCall.evenPixelNumber)]
    /\ UNCHANGED <<editVars, updateVars, ioVars, mHeadSize, lastHeadSize, trackShowOnlyNrList,
                   lastSelection, versionCheck, fileVars>>

NextRoi == GetRoi

SpecRoi == InitRoi /\ [][NextRoi]_vars

NextTrc ==
    \/ AddPoints(<<TrackPoint(<<1, 0>>, 100)>>)
    \/ SkipToFrameWheel(1)
    \/ DeleteTrackPointAll("Whole")
    \/ ExportTracker
    \/ \E file \in TrcFiles \cup {trcFile} : ImportTracker(file)

SpecTrc == Init /\ [][NextTrc]_vars

(***************************************************************************)
(* A project that names a trajectory file is opened                        *)
(***************************************************************************)
\* PersonStorage::largestLastFrame, smallestFirstFrame; -1 for the empty store
largestLastFrame(store) ==
    IF nbPersons(store) = 0 THEN -1 ELSE SetMax({lastFrame(store[i]) : i \in 1..nbPersons(store)})
smallestFirstFrame(store) ==
    IF nbPersons(store) = 0 THEN -1 ELSE SetMin({firstFrame(store[i]) : i \in 1..nbPersons(store)})

\* the store openXml hands to importTracker: it is cleared if its
\* trajectories reach over the frame asked for
clearedForImport(store, frame) ==
    IF largestLastFrame(store) >= frame /\ smallestFirstFrame(store) <= frame
    THEN << >> ELSE store

\* openXml, from if(mTrcFileName != ""): the project names the file
OpenXml(file) ==
    /\ Len(file) > 0
    /\ LET frame == 0
           r == importTracker(clearedForImport(persons, frame), file, trcVersion)
       IN  /\ withinBounds(r.store)
           /\ persons' = r.store
           /\ trcVersion' = r.version
           /\ trcFile' = file
           /\ lastImport' = ImportOf(r)
    /\ mTrackChanged' = TRUE
    /\ lastOp' = Op("openXml", NoResult, NoPos, -1, 0, "none", {})
    /\ UNCHANGED <<currentFrame, imageLoaded, semaphore, running, mRecognitionChanged,
                   changedFilters, lastRecoFrame, tracked, numberVars, trackAllVars, lastUpd, cameraAltitude,
                   queryVars>>

NextOpen ==
    \/ \E persList \in {<<p>> : p \in RecoPoints} : AddPoints(persList)
    \/ SkipToFrameWheel(1)
    \/ DeleteTrackPointAll("Whole")
    \/ \E file \in TrcFiles : OpenXml(file)

SpecOpen == Init /\ [][NextOpen]_vars

(***************************************************************************)
(* The store is exported to a named file                                   *)
(***************************************************************************)
\* exportTracker(dest), .trc and .txt branch (the heights not recalculated);
\* opened, removed, copied: what the file system lets happen
ExportTrackerTo(dest, opened, removed, copied) ==
    IF ~opened
    THEN /\ lastExport' = Export(dest, files[dest].exists, "noTemporary")
         /\ lastOp' = Op("exportTrackerTo", NoResult, NoPos, -1, 0, "none", {})
         /\ UNCHANGED <<persons, currentFrame, updateVars, ioVars, mHeadSize, lastHeadSize,
                        trackShowOnlyNrList, lastSelection, versionCheck, roiCall, files,
                        mTrcFileName>>
    ELSE LET disk == afterRemove(files, dest, removed)
             done == copyDone(disk, dest, copied)
         IN  /\ files' = IF done THEN [disk EXCEPT ![dest] = File(written(persons, dest))] ELSE disk
             /\ mTrcFileName' = IF endsWithTrc(dest) THEN dest ELSE mTrcFileName
             /\ trcVersion' = IF endsWithTrc(dest) THEN 4 ELSE trcVersion
             /\ lastExport' = Export(dest, files[dest].exists, IF done THEN "copied" ELSE "failed")
             /\ lastOp' = Op("exportTrackerTo", NoResult, NoPos, -1, 0, "none", {})
             /\ UNCHANGED <<persons, currentFrame, updateVars, trcFile, cameraAltitude, lastImport,
                            mHeadSize, lastHeadSize, trackShowOnlyNrList, lastSelection,
                            versionCheck, roiCall>>

NextExport ==
    \/ \E persList \in {<<p>> : p \in RecoPoints} : AddPoints(persList)
    \/ SkipToFrameWheel(1)
    \/ \E dest \in FileNames, opened \in BOOLEAN, removed \in BOOLEAN, copied \in BOOLEAN :
          ExportTrackerTo(dest, opened, removed, copied)

SpecExport == Init /\ [][NextExport]_vars

(***************************************************************************)
(* Properties of the update pipeline                                       *)
(***************************************************************************)
\* what a dropped updateImage call must leave alone
pipelineState == <<persons, changedFilters, mTrackChanged, mRecognitionChanged, lastRecoFrame,
                   tracked, running, semaphore>>

\* C9: at most one execution of the updateImage pipeline is in progress at
\* any time; an updateImage call that arrives while the guard is held (a
\* re-entrant call from inside the running pipeline included) is dropped: it
\* filters nothing, tracks nothing, recognises nothing, leaves the store as it
\* is, and leaves nothing behind that would run later.
C9_SingleFlight ==
    [][/\ Len(running') <= 1
       /\ semaphore' = 1 - Len(running')
       /\ (semaphore = 0 /\ lastUpd'.call \in {"run", "dropped"})
            => (lastUpd'.call = "dropped" /\ UNCHANGED pipelineState)]_vars

\* a call was dropped while an execution was inside processEvents
C9_Witness ==
    /\ lastUpd.call = "dropped"
    /\ imageLoaded
    /\ Len(running) = 1
    /\ semaphore = 0

\* C10 as stated: the track step runs at most once for every frame number
C10_TrackedAtMostOnce == ~(lastUpd.call = "run" /\ lastUpd.tracked = "again")

\* C10: the track step runs only in an execution that holds the guard, and it
\* runs a second time for a frame only when the image of that frame was
\* delivered again or a tracking parameter changed since the last track step;
\* an update without a new image and without a changed tracking parameter
\* never tracks the current frame again.  Every track step resets
\* mTrackChanged.
C10_RetrackOnlyOnChange ==
    [][(lastUpd'.call = "run" /\ lastUpd'.tracked # "no")
         => /\ semaphore = 1
            /\ ~mTrackChanged'
            /\ currentFrame' \in tracked'
            /\ lastUpd'.tracked = "again" => (lastUpd'.imageChanged \/ mTrackChanged)]_vars

\* the frame shown was tracked a second time after a tracking parameter changed
C10_Witness ==
    /\ lastUpd.call = "run"
    /\ lastUpd.tracked = "again"
    /\ ~lastUpd.imageChanged
    /\ currentFrame \in tracked

\* C11: no manual edit of the store executes while an updateImage execution
\* holds the guard; in particular none is dispatched by the processEvents
\* call of a running updateImage.  (Every edit handler records itself in
\* lastOp; of the other steps only the opening of a sequence does.)
C11_NoEditUnderGuard == [][lastOp' # lastOp /\ lastOp'.op # "openSequence" => semaphore = 1]_vars

\* the point of list that the store holds for person i at frame f
holdsPointOf(store, i, f, lists) ==
    /\ trackPointExist(store[i], f)
    /\ \E l \in lists : l # << >> /\ trackPointAt(store[i], f) = clampQual(l[1])

\* C12: within one updateImage execution the track step is complete before
\* the recognition step stores its points: when both deliver a point for a
\* frame that held no point, the recognition meets the tracked point in the
\* store (and, being no better, does not replace it); no point of the
\* recognition is stored for the frame ahead of the tracker's.
C12_TrackBeforeReco ==
    [][(/\ lastUpd'.call = "run"
        /\ trackNumberNow' > 0
        /\ recoNumberNow' > 0
        /\ \/ "calib" \in changedFilters
           \/ \A i \in 1 .. Len(persons) : ~trackPointExist(persons[i], currentFrame'))
         => /\ \E i \in 1 .. Len(persons') : holdsPointOf(persons', i, currentFrame', TrackLists)
            /\ \A i \in 1 .. Len(persons') : ~holdsPointOf(persons', i, currentFrame', RecoLists)]_vars

\* an execution in which both steps delivered a point for a frame without points
C12_Witness ==
    /\ lastUpd.call = "run"
    /\ lastUpd.tracked = "first"
    /\ trackNumberNow > 0
    /\ recoNumberNow > 0
    /\ \E i \in 1 .. Len(persons) : holdsPointOf(persons, i, currentFrame, TrackLists)

(***************************************************************************)
(* Properties of the proximal search                                       *)
(***************************************************************************)
\* the eligible persons with a point within the threshold of pos at a frame of lo .. hi
personsInReach(store, pos, eligiblePersons, lo, hi) ==
    {i \in 1 .. Len(store) :
        /\ isEligible(i, eligiblePersons)
        /\ \E f \in framesOf(store[i]) :
              /\ lo <= f
              /\ f <= hi
              /\ distanceToPointSq(store[i].pts[f].pos, pos) < DistThreshold * DistThreshold}

\* C13: getProximalPersons returns exactly the eligible persons that have a
\* point within the pixel radius of the position at a frame of the window
\* current - before .. current + after, each once and with such a frame:
\* nothing when every point is farther away, one match for a single near
\* trajectory, several when two trajectories have near points in the window.
C13_ProximalPersons ==
    \A pos \in SelectPos, w \in UserSelections, before \in ShowRange, after \in ShowRange :
        LET elig == getPedestrianUserSelection(w)
            lo == currentFrame - before
            hi == currentFrame + after
            expected == personsInReach(persons, pos, elig, lo, hi)
            results == getProximalPersons(persons, pos, elig, FrameRange(before, after, currentFrame))
        IN  /\ results # {}
            /\ \A res \in results :
                  /\ {r.pers : r \in res} = expected
                  /\ Cardinality(res) = Cardinality(expected)
                  /\ \A r \in res :
                        /\ lo <= r.frame /\ r.frame <= hi
                        /\ trackPointExist(persons[r.pers], r.frame)
                        /\ Near(trackPointAt(persons[r.pers], r.frame).pos, pos)

\* a search found one trajectory, and the store has a window and a pixel for
\* which the search finds two, and one for which it finds none
C13_Witness ==
    /\ lastOp.op = "skipToTrajectory"
    /\ lastOp.outcome = "one"
    /\ \E pos \in SelectPos, before \in ShowRange, after \in ShowRange :
          Cardinality(personsInReach(persons, pos, {}, currentFrame - before, currentFrame + after)) > 1
    /\ \E pos \in SelectPos, before \in ShowRange, after \in ShowRange :
          personsInReach(persons, pos, {}, currentFrame - before, currentFrame + after) = {}

\* C14: skipToFrameFromTrajectory moves the player only when the search
\* returned exactly one match, and then to the frame of that match; for no
\* match and for two or more matches the frame stays; the store is never
\* changed.
C14_AmbiguousRefused ==
    [][lastOp'.op = "skipToTrajectory"
         => /\ persons' = persons
            /\ lastOp'.outcome # "one" => currentFrame' = currentFrame
            /\ lastOp'.outcome = "one"
                 => /\ trackPointExist(persons[lastOp'.pers], currentFrame')
                    /\ Near(trackPointAt(persons[lastOp'.pers], currentFrame').pos, lastOp'.pos)
            /\ lastOp'.outcome = "ambiguous"
                 => Cardinality(personsInReach(persons, lastOp'.pos, lastOp'.elig,
                                               currentFrame - 1, currentFrame + 1)) > 1]_vars

\* the search returned two trajectories, one of them at another frame
C14_Witness ==
    /\ lastOp.op = "skipToTrajectory"
    /\ lastOp.outcome = "ambiguous"
    /\ \E i \in 1 .. Len(persons) : ~trackPointExist(persons[i], currentFrame)

(***************************************************************************)
(* Properties of the counts                                                *)
(***************************************************************************)
\* the persons that hold a point at frame f
personsAt(store, f) == {i \in 1 .. Len(store) : f \in DOMAIN store[i].pts}

\* C15: for every frame f and every reachable store, visible(f) is the number
\* of stored persons p with firstFrame(p) <= f <= lastFrame(p), which are the
\* persons holding a point at f; persons that overlap at f are all counted,
\* persons that ended before f or start after f are not.
C15_VisibleCount ==
    \A f \in Frames :
        /\ visible(persons, f) = Cardinality(personsAt(persons, f))
        /\ visible(persons, f) <= nbPersons(persons)
        /\ \A i \in 1 .. Len(persons) :
              (firstFrame(persons[i]) <= f /\ f <= lastFrame(persons[i])) <=> i \in personsAt(persons, f)

\* after an edit two persons overlap at one frame and not at another
C15_Witness ==
    /\ lastOp.op = "addManual"
    /\ nbPersons(persons) = 2
    /\ \E f \in Frames : visible(persons, f) = 2
    /\ \E f \in Frames : visible(persons, f) = 1

(***************************************************************************)
(* Properties of the deletes                                               *)
(***************************************************************************)
\* the frames a delete of the given direction at frame f leaves to a person
leftFrames(person, direction, f) ==
    {g \in DOMAIN person.pts : \/ direction = "Previous" /\ g > f
                               \/ direction = "Following" /\ g < f}

\* the persons a bulk delete leaves without a point
emptied(store, direction, f) ==
    {i \in 1 .. Len(store) : leftFrames(store[i], direction, f) = {}}

\* C16: the store never holds a person without points, and its person count
\* is the number of persons not deleted: a delPoint that takes the last
\* remaining point of the matched person removes that person and lowers the
\* count by one, a delPointAll lowers it by the number of persons it leaves
\* without a point, and a delete that leaves points keeps the count.
C16_NoEmptyPerson ==
    [][/\ \A i \in 1 .. Len(persons') : DOMAIN persons'[i].pts # {}
       /\ lastOp'.op = "delPoint" =>
             LET i == lastOp'.pers
             IN  IF i # 0 /\ leftFrames(persons[i], directionOf(lastOp'.direction), currentFrame) = {}
                 THEN nbPersons(persons') = nbPersons(persons) - 1
                 ELSE nbPersons(persons') = nbPersons(persons)
       /\ lastOp'.op = "delPointAll" =>
             nbPersons(persons') = nbPersons(persons)
                                     - Cardinality(emptied(persons, lastOp'.dirAll, currentFrame))]_vars

\* a delete of the following part took all points a person had; one person is left
C16_Witness ==
    /\ lastOp.op = "delPoint"
    /\ lastOp.direction = 1
    /\ lastOp.outcome = "removed"
    /\ nbPersons(persons) = 1

\* C17: delPointAll(direction, frame) does to every person what the
\* directional delete does to one: Previous leaves each person its frames
\* > frame, Following its frames < frame, Whole empties the store; the
\* persons left without points are removed, in the frames left every point is
\* as it was, and nothing else is in the store.
C17_DelPointAll ==
    [][lastOp'.op = "delPointAll" =>
          LET f == currentFrame
              dir == lastOp'.dirAll
              left(i) == [g \in leftFrames(persons[i], dir, f) |-> persons[i].pts[g]]
              survivors == (1 .. Len(persons)) \ emptied(persons, dir, f)
          IN  /\ Len(persons') = Cardinality(survivors)
              /\ \A i \in survivors : \E j \in 1 .. Len(persons') : persons'[j].pts = left(i)
              /\ \A j \in 1 .. Len(persons') : \E i \in survivors : persons'[j].pts = left(i)
              /\ dir = "Whole" => persons' = << >>]_vars

\* a bulk delete of the past at frame 1 left one person, with frames after 1 only
C17_Witness ==
    /\ lastOp.op = "delPointAll"
    /\ lastOp.dirAll = "Previous"
    /\ currentFrame = 1
    /\ nbPersons(persons) = 1
    /\ firstFrame(persons[1]) = 2

(***************************************************************************)
(* Properties of the .trc export and import                                *)
(***************************************************************************)
\* a and b have the same first frame, the same number of points and, at
\* every frame, the same pixel position and the same quality
samePerson(a, b) ==
    /\ firstFrame(a) = firstFrame(b)
    /\ Cardinality(framesOf(a)) = Cardinality(framesOf(b))
    /\ \A f \in framesOf(a) :
          /\ trackPointExist(b, f)
          /\ trackPointAt(a, f).pos = trackPointAt(b, f).pos
          /\ trackPointAt(a, f).qual = trackPointAt(b, f).qual

\* the persons store holds from position from + 1 on are those of exported
reproduces(store, from, exported) ==
    /\ nbPersons(store) = from + nbPersons(exported)
    /\ \A i \in 1..nbPersons(exported) : samePerson(store[from + i], exported[i])

declares(file, d) == file[1] = <<Word("version"), Num(d)>>
\* the first line is one integer
bareCount(file) == Len(file[1]) = 1 /\ file[1][1].kind = "int"

\* a step of importTracker that took the file and appended sz persons,
\* recording the version
accepted(version, sz) ==
    /\ lastImport'.outcome = "imported"
    /\ lastImport'.version = version /\ trcVersion' = version
    /\ lastImport'.sz = sz
    /\ nbPersons(persons') = nbPersons(persons) + sz
    /\ trcFile' = lastImport'.file

\* a step of importTracker that refused the file and imported nothing
refused ==
    /\ lastImport'.outcome = "rejected"
    /\ persons' = persons
    /\ trcVersion' = trcVersion
    /\ trcFile' = trcFile

\* C20 as claimed: a .trc file whose first line is a bare integer or declares
\* version 1, 2, 3 or 4 is accepted by importTracker.
C20_AcceptsVersions1To4 ==
    [][lastOp'.op = "importTracker" /\
          (bareCount(lastImport'.file) \/ \E d \in 1..4 : declares(lastImport'.file, d))
       => lastImport'.outcome = "imported"]_vars

\* C20: importTracker takes a first line that is a bare integer as version 1
\* with that integer as the person count; it accepts a first line holding
\* the text "version 4", "version 3" or "version 2" (so also "version 40",
\* as version 4) with the person count read from the next line; every other
\* first line, a declared version 1 or 5 included, is refused and nothing
\* is imported.
C20_AcceptsBareCountAndVersions2To4 ==
    [][lastOp'.op = "importTracker" =>
         LET file == lastImport'.file
         IN  /\ bareCount(file) => accepted(1, file[1][1].n)
             /\ \A d \in 2..4 : declares(file, d) => accepted(d, file[2][1].n)
             /\ declares(file, 40) => accepted(4, file[2][1].n)
             /\ declares(file, 1) \/ declares(file, 5) => refused
             /\ file[1][1].kind = "word" /\ file[1][1].text # "version" => refused]_vars

\* C20 witness: a file declaring version 3 was imported into an empty store,
\* which now holds the person of the file
C20_Witness ==
    /\ lastOp.op = "importTracker"
    /\ lastImport.outcome = "imported"
    /\ declares(lastImport.file, 3)
    /\ trcVersion = 3
    /\ nbPersons(persons) = 1
    /\ samePerson(persons[1], fromTrc(lastImport.file[3]))

(***************************************************************************)
(* Properties of the height                                                *)
(***************************************************************************)
\* C19: recalcHeight is idempotent: when an export recalculates the heights
\* right after an export that recalculated them, with the same altitude and
\* no point added, removed or changed in between, every person keeps the
\* height the first recalculation gave it.
C19_RecalcHeightIdempotent ==
    [][lastOp.op = "exportTrackerTxt" /\ lastOp.outcome \in {"recalc", "recalcAgain"}
          /\ lastOp'.op = "exportTrackerTxt" /\ lastOp'.outcome = "recalcAgain"
       => /\ nbPersons(persons') = nbPersons(persons)
          /\ \A i \in 1..nbPersons(persons) : persons'[i].height = persons[i].height]_vars

\* C19 witness: the heights were recalculated twice in a row; a person with
\* two points has a height other than the provisional one
C19_Witness ==
    /\ lastOp.op = "exportTrackerTxt"
    /\ lastOp.outcome = "recalcAgain"
    /\ \E i \in 1..nbPersons(persons) :
          /\ Cardinality(framesOf(persons[i])) = 2
          /\ persons[i].height # ProvisionalHeight
          /\ persons[i].height = heightFromPoints(persons[i], cameraAltitude)

\* C21: an import of a .trc file whose first line is neither a bare integer
\* nor a line holding "version 2", "version 3" or "version 4" fails as a
\* whole: no person is added, the store is as it was, and the recorded
\* trajectory file stays the one recorded before.
C21_RejectedImportChangesNothing ==
    [][lastOp'.op = "importTracker"
          /\ ~toInt(lastImport'.file[1]).ok
          /\ ~(\E d \in 2..4 : containsVersion(lastImport'.file[1], d))
       => /\ nbPersons(persons') = nbPersons(persons)
          /\ \A i \in 1..nbPersons(persons) : persons'[i] = persons[i]
          /\ trcFile' = trcFile
          /\ trcFile' # lastImport'.file]_vars

\* C21 witness: a file was refused while the store held a person and a file
\* imported before was recorded
C21_Witness ==
    /\ lastOp.op = "importTracker"
    /\ lastImport.outcome = "rejected"
    /\ nbPersons(persons) >= 1
    /\ trcFile # << >>
    /\ trcFile # lastImport.file

(***************************************************************************)
(* Properties of the .txt import                                           *)
(***************************************************************************)
\* lines i and j of file are records of the same (person, frame)
sameKey(file, i, j) ==
    /\ file[i].kind = "record" /\ file[j].kind = "record"
    /\ file[i].personNr = file[j].personNr
    /\ file[i].frameNr = file[j].frameNr

hasDuplicate(file) == \E i, j \in 1..Len(file) : i < j /\ sameKey(file, i, j)

\* C22: an import of a legacy .txt file that holds two records of the same
\* (person, frame) stops with an error and adds no person of the file to the
\* store, wherever in the file the second of the two records stands.
C22_DuplicateRecordRejected ==
    [][lastOp'.op = "importTrackerTxt" /\ hasDuplicate(lastImport'.file)
       => /\ lastImport'.outcome = "duplicate"
          /\ persons' = persons]_vars

\* C22 witness: a file of three records, the third repeating the (person,
\* frame) of the second after a record of another person, was refused while
\* the store held a person
C22_Witness ==
    /\ lastOp.op = "importTrackerTxt"
    /\ lastImport.outcome = "duplicate"
    /\ Len(lastImport.file) = 3
    /\ sameKey(lastImport.file, 2, 3)
    /\ lastImport.file[1].personNr # lastImport.file[2].personNr
    /\ nbPersons(persons) = 1

(***************************************************************************)
(* Properties of the clearing of the store                                 *)
(***************************************************************************)
\* the points the tracker and the recognition can deliver for a frame
deliveredPoints ==
    {l[i] : l \in {t \in TrackLists \cup RecoLists : Len(t) > 0}, i \in {1}}

passTurn ==
    /\ trackAllPc \in {"forward", "backward"}
    /\ running = << >>
    /\ lastTrackAll'.step = trackAllPc

\* C24: every turn of the forward and of the backward loop of trackAll reads
\* the cancellation flag before it moves the player, and moves it by one
\* frame at most; a turn that finds the flag set moves no frame, delivers
\* none and leaves the pass.  Pressing cancel changes nothing but the flag:
\* an updateImage in progress keeps the guard and its place and is finished
\* by its own return.
C24_CancelPolledPerFrame ==
    [][/\ passTurn => lastTrackAll'.polled
       /\ passTurn /\ wasCanceled =>
            /\ currentFrame' = currentFrame
            /\ trackAllPc' # trackAllPc
            /\ UNCHANGED <<persons, running, semaphore, lastUpd>>
       /\ passTurn /\ ~wasCanceled /\ trackAllPc' = trackAllPc =>
            currentFrame' = IF trackAllPc = "forward" THEN currentFrame + 1 ELSE currentFrame - 1
       /\ wasCanceled' /\ ~wasCanceled /\ trackAllPc # "idle" =>
            UNCHANGED <<persons, currentFrame, pipelineVars, trackAllPc>>]_vars

\* C24 witness: the forward pass was left on a cancellation, at a frame that
\* is not the last of the sequence
C24_Witness ==
    /\ wasCanceled
    /\ lastTrackAll.step = "forward"
    /\ lastTrackAll.polled
    /\ ~lastTrackAll.advanced
    /\ lastTrackAll.from < NumFrames - 1
    /\ currentFrame = lastTrackAll.from
    /\ trackAllPc \in {"jump", "restore"}

\* C25: trackAll saves the player's position and the online tracking and
\* perform recognition settings when it is called, keeps what it saved while
\* it runs, and when it returns, after full passes or after a cancellation
\* in either pass, the two settings and the position are the saved ones.
C25_SettingsRestored ==
    [][/\ trackAllPc = "idle" /\ trackAllPc' # "idle" =>
            /\ memPos' = currentFrame
            /\ memCheckState' = onlineTrackingChecked
            /\ memRecoState' = performRecognitionChecked
       /\ trackAllPc # "idle" => UNCHANGED <<memPos, memCheckState, memRecoState>>
       /\ trackAllPc # "idle" /\ trackAllPc' = "idle" =>
            /\ onlineTrackingChecked' = memCheckState
            /\ performRecognitionChecked' = memRecoState
            /\ currentFrame' = memPos]_vars

\* C25 witness: trackAll, called at frame 1 with tracking and recognition
\* off, was cancelled and has returned from another frame: tracking and
\* recognition are off and the player is at frame 1
C25_Witness ==
    /\ trackAllPc = "idle"
    /\ lastTrackAll.step = "restore"
    /\ wasCanceled
    /\ lastTrackAll.from # memPos
    /\ memPos = 1
    /\ currentFrame = 1
    /\ ~onlineTrackingChecked /\ ~memCheckState
    /\ ~performRecognitionChecked /\ ~memRecoState

\* the step is the jump between the passes, made with a person in the store
jumpBack ==
    /\ trackAllPc = "jump"
    /\ trackAllPc' = "backward"
    /\ nbPersons(persons) > 0

C27_HeadSize ==
    LET c == lastHeadSize
        r == c.result
        exists == /\ c.pers \in 0 .. nbPersons(c.store) - 1
                  /\ c.frame \in framesOf(c.store[c.pers + 1])
    IN  c # NoHeadSize =>
          /\ r.outcome \in {"default", "distance", "height", "projected"}
          /\ \A rd \in r.reads : /\ rd[1] \in 0 .. nbPersons(c.store) - 1
                                 /\ rd[2] \in framesOf(c.store[rd[1] + 1])
          /\ ~exists => r.value = c.headSize /\ r.reads = {}
          /\ exists /\ c.dim # 0 =>
               r.value = IF c.z > 0
                         THEN Quotient(HEAD_SIZE * c.altitude, c.z * getCmPerPixel)
                         ELSE IF c.store[c.pers + 1].height > MIN_HEIGHT
                         THEN Quotient(HEAD_SIZE * c.altitude,
                                       (c.altitude - c.store[c.pers + 1].height) * getCmPerPixel)
                         ELSE c.headSize

\* C27 witness: with a 2D calibration the head size was asked for a point
\* without camera distance of a person with a measured height, and the
\* store holds a frame that person has no point at
C27_Witness ==
    /\ lastHeadSize.result.outcome = "height"
    /\ lastHeadSize.z <= 0
    /\ lastHeadSize.dim # 0
    /\ lastHeadSize.store = persons
    /\ \E f \in Frames : f \notin framesOf(persons[lastHeadSize.pers + 1])

\* the elements of a text: what stands between the commas, empty ones left out
elementsOf(text) == {e \in {split(text, ",")[i] : i \in 1 .. Len(split(text, ","))} : e # << >>}

\* an element written as a number: digits only
isNumber(e) == e # << >> /\ \A i \in 1 .. Len(e) : e[i] \in Digits

RECURSIVE numberOf(_)
numberOf(e) == IF Len(e) = 1 THEN digitValue(e[1])
               ELSE 10 * numberOf(SubSeq(e, 1, Len(e) - 1)) + digitValue(e[Len(e)])

\* an element written as a range a-b of two numbers
isRange(e) ==
    \E k \in 2 .. Len(e) - 1 :
        e[k] = "-" /\ isNumber(SubSeq(e, 1, k - 1)) /\ isNumber(SubSeq(e, k + 1, Len(e)))

\* the integers an element of one of the two forms lists
listed(e) ==
    IF isNumber(e) THEN {numberOf(e)}
    ELSE LET k == CHOOSE k \in 2 .. Len(e) - 1 : e[k] = "-"
             a == numberOf(SubSeq(e, 1, k - 1))
             b == numberOf(SubSeq(e, k + 1, Len(e)))
         IN  {n \in 0 .. (a + b) : (a <= n /\ n <= b) \/ (b <= n /\ n <= a)}

\* a number with or without a minus sign
isSigned(e) == isNumber(e) \/ (Len(e) > 1 /\ e[1] = "-" /\ isNumber(Tail(e)))

\* a range of two numbers with or without signs
isSignedRange(e) ==
    \E k \in 2 .. Len(e) - 1 :
        e[k] = "-" /\ isSigned(SubSeq(e, 1, k - 1)) /\ isSigned(SubSeq(e, k + 1, Len(e)))

C29_OnlyPositive ==
    lastSelection.outcome = "list" =>
        /\ \A id \in lastSelection.ids.value : id >= 1
        /\ lastSelection.selected = {id - 1 : id \in lastSelection.ids.value}

\* a version string of two or three parts, each written in digits
wellFormed(q) ==
    /\ Len(split(q, ".")) \in {2, 3}
    /\ \A i \in 1 .. Len(split(q, ".")) : isNumber(split(q, ".")[i])

\* the (major, minor, patch) triple of a well-formed version string
tripleOf(q) ==
    LET p == split(q, ".")
    IN  <<numberOf(p[1]), numberOf(p[2]), IF Len(p) = 3 THEN numberOf(p[3]) ELSE 0>>

lexGreater(a, b) ==
    \/ a[1] > b[1]
    \/ a[1] = b[1] /\ a[2] > b[2]
    \/ a[1] = b[1] /\ a[2] = b[2] /\ a[3] > b[3]

\* C30: newerThanVersion(q1, q2) is true exactly when the (major, minor,
\* patch) triple of q1 is lexicographically greater than that of q2, a
\* missing patch counting as 0; it is false for equal versions and never
\* true in both directions; it throws std::invalid_argument when a string
\* has a part that is not a number or has not 2 or 3 parts.
C30_NewerThanVersion ==
    LET q1 == versionCheck.q1
        q2 == versionCheck.q2
        outcome == versionCheck.outcome
    IN  outcome # "none" =>
          /\ wellFormed(q1) /\ wellFormed(q2) =>
                outcome = IF lexGreater(tripleOf(q1), tripleOf(q2)) THEN "true" ELSE "false"
          /\ wellFormed(q1) /\ wellFormed(q2) /\ tripleOf(q1) = tripleOf(q2) => outcome = "false"
          /\ ~(wellFormed(q1) /\ wellFormed(q2)) => outcome \in {"non-numeric", "wrong-parts"}
          /\ outcome = "true" => newerThanVersion(q2, q1) # "true"

\* C30 witness: 10.0 was compared with 2.10.2 and found newer, the
\* missing patch taken as 0 and the parts compared as numbers
C30_Witness ==
    /\ versionCheck.q1 = <<"1", "0", ".", "0">>
    /\ versionCheck.q2 = <<"2", ".", "1", "0", ".", "2">>
    /\ versionCheck.outcome = "true"

\* the body of updateImage ran in this step
bodyRan == lastUpd'.call = "run" /\ (lastUpd' # lastUpd \/ persons' # persons \/ running' # running)

\* what lets the recognition run for the frame of the step: it is enabled,
\* and the delivered frame is at least the step away from the last
\* recognition frame, or the source is live, or a filter or the recognition
\* parameters changed
recognitionDue ==
    LET c == lastUpd'.control
        frameNum == currentFrame'
    IN  /\ c.performRecognition
        /\ \/ /\ lastUpd'.imageChanged
              /\ \/ frameNum - lastRecoFrame >= c.recoStep
                 \/ lastRecoFrame - frameNum >= c.recoStep
           \/ c.cameraLiveStream
           \/ changedFilters \cap {"swap", "brightContrast", "border", "calib"} # {}
           \/ mRecognitionChanged

\* C31: in updateImage the recognition runs, and recognised points enter
\* the store, only if recognition is enabled and the delivered frame is at
\* least the step N away from the last recognition frame in either
\* direction, or the source is a live stream, or a swap, brightness-contrast,
\* border or calibration filter or the recognition parameters changed;
\* otherwise no recognised point is added for the frame.
C31_RecognitionGate ==
    [][bodyRan /\ ~recognitionDue =>
          /\ ~lastUpd'.reco
          /\ recoNumberNow' = 0
          /\ \A i \in 1 .. Len(persons') :
                holdsPointOf(persons', i, currentFrame', RecoLists) =>
                   i <= Len(persons) /\ holdsPointOf(persons, i, currentFrame', RecoLists)]_vars

\* C31 witness: a frame one after the last recognition frame was delivered
\* with recognition enabled and a step of 2; the recognition did not run and
\* the last recognition frame is still the frame before
C31_Witness ==
    /\ lastUpd.call = "run"
    /\ lastUpd.imageChanged
    /\ lastUpd.control = RecoControl(TRUE, 2, FALSE)
    /\ ~lastUpd.reco
    /\ lastRecoFrame = currentFrame - 1
    /\ recoNumberNow = 0

\* trackAll calls optimizeColor in this step
optimizeColorCalled == trackAllRun'.optimizeColor > trackAllRun.optimizeColor

\* C32 as claimed: trackAll calls optimizeColor only after a forward pass
\* to the end of the sequence and a backward pass have both completed, not
\* when a pass was cancelled or when no backward pass ran.
C32_OptimizeOnlyAfterFullPasses ==
    [][optimizeColorCalled =>
          trackAllRun.forward = "complete" /\ trackAllRun.backward = "complete"]_vars

\* C32: trackAll calls optimizeColor once, at its end, after the forward
\* loop and (with mAutoBackTrack) the backward loop were left and before
\* settings and position are restored, whenever mAutoTrackOptimizeColor is
\* set and only then: also when a pass was cancelled and when no backward
\* pass ran.
C32_OptimizeWhenSet ==
    [][/\ trackAllPc = "restore" /\ trackAllPc' = "idle" =>
            /\ optimizeColorCalled = mAutoTrackOptimizeColor
            /\ trackAllRun'.optimizeColor <= 1
            /\ trackAllRun.forward # "none"
            /\ (trackAllRun.backward # "none") = mAutoBackTrack
       /\ optimizeColorCalled => trackAllPc = "restore" /\ trackAllPc' = "idle"]_vars

\* C32 witness: trackAll has returned; its forward pass was cancelled and
\* optimizeColor was called
C32_Witness ==
    /\ trackAllPc = "idle"
    /\ lastTrackAll.step = "restore"
    /\ trackAllRun.forward = "cancelled"
    /\ trackAllRun.optimizeColor = 1

(***************************************************************************)
(* C33, C34: the rect getRoi sets                                          *)
(***************************************************************************)
\* C33: for every image size and every roi, also one partly or wholly outside
\* the image, the rect getRoi sets has width >= 0 and height >= 0 and lies
\* inside the image: 0 <= x, 0 <= y, x + width <= cols, y + height <= rows
C33_RectInsideImage ==
    roiCall.done =>
        LET rect == roiCall.rect
        IN  /\ rect.width >= 0 /\ rect.height >= 0
            /\ 0 <= rect.x /\ 0 <= rect.y
            /\ rect.x + rect.width <= roiCall.cols
            /\ rect.y + rect.height <= roiCall.rows

\* C34: called with evenPixelNumber = true, getRoi sets a rect whose width and
\* height are both even, also when the roi is cut at a border of the image
C34_EvenSize ==
    roiCall.done /\ roiCall.evenPixelNumber =>
        roiCall.rect.width % 2 = 0 /\ roiCall.rect.height % 2 = 0

(***************************************************************************)
(* C35: the store after a project with a trajectory file was opened        *)
(***************************************************************************)
\* C35: when a project that names a trajectory file is opened, the
\* trajectories of the store are deleted before the file is imported:
\* afterwards the store holds the persons of the file and no others
C35_StoreClearedBeforeImport ==
    [][lastOp'.op = "openXml" /\ lastImport'.outcome = "imported" =>
          persons' = importTracker(<< >>, lastImport'.file, trcVersion).store]_vars

(***************************************************************************)
(* C36: the guard of updateImage is given back                             *)
(***************************************************************************)
\* C36: an updateImage that took the guard gives it back before it returns,
\* on every path (store cleared or not, tracking on or off, recognition run
\* or skipped): whenever no execution is in progress the guard is free, and
\* a call made then, with an image loaded, runs the pipeline and is not dropped
C36_GuardReleased ==
    [][/\ running' = << >> => semaphore' = 1
       /\ lastUpd'.call = "returned" => semaphore' = semaphore + 1
       /\ running = << >> /\ imageLoaded /\ lastUpd'.call \in {"run", "dropped"}
              /\ lastUpd' # lastUpd
            => lastUpd'.call = "run"]_vars

\* two frames were tracked by two executions, the last execution has
\* returned, and the guard is free
C36_Witness ==
    /\ lastUpd.call = "returned"
    /\ running = << >>
    /\ semaphore = 1
    /\ Cardinality(tracked) >= 2

(***************************************************************************)
(* C37, C38: the persons a legacy .txt file is imported as                 *)
(***************************************************************************)
\* a legacy .txt file was imported by the step
txtImported == lastOp'.op = "importTrackerTxt" /\ lastImport'.outcome = "imported"

\* the records of a file, and the persons the step appended to the store
dataLines(file) == {i \in 1 .. Len(file) : file[i].kind = "record"}
importedPersons == (Len(persons) + 1) .. Len(persons')

\* the pixel of a record whose coordinates were multiplied by factor
pixelOf(line, factor) == getPosImage(<<line.v[1] * factor, line.v[2] * factor, line.v[3] * factor>>)

\* person holds the point of the record at the frame of the record
storesRecord(person, line) ==
    /\ line.frameNr \in DOMAIN person.pts
    /\ \E factor \in {1, 100} : person.pts[line.frameNr].pos = pixelOf(line, factor)

\* C37: for every record (p, f, x, y, z) of an imported legacy .txt file the
\* person imported for p begins at the smallest frame of p in the file and
\* holds the point of the record at frame f, also when the frames of p in
\* the file are not consecutive
C37_RecordAtItsFrame ==
    [][txtImported =>
          LET file == lastImport'.file
          IN  \A nr \in {file[l].personNr : l \in dataLines(file)} :
                 \E i \in importedPersons :
                    /\ firstFrame(persons'[i]) =
                          SetMin({file[l].frameNr : l \in {k \in dataLines(file) : file[k].personNr = nr}})
                    /\ \A l \in dataLines(file) :
                          file[l].personNr = nr => storesRecord(persons'[i], file[l])]_vars

\* the header of a file, the comment read last before its first record,
\* names cm
headerNamesCm(file) ==
    LET first == SetMin(dataLines(file))
    IN  first > 1 /\ file[first - 1].hasCm

\* some imported person holds the point of the record, multiplied by factor
importedWith(line, factor) ==
    \E i \in importedPersons : \E f \in DOMAIN persons'[i].pts :
        persons'[i].pts[f].pos = pixelOf(line, factor)

\* C38: one import of a legacy .txt file multiplies the coordinates of every
\* record of the file by the same factor, 1 if the header names cm and 100
\* otherwise, wherever comment lines stand in the file
C38_SingleFactor ==
    [][txtImported /\ dataLines(lastImport'.file) # {} =>
          LET file == lastImport'.file
              factor == IF headerNamesCm(file) THEN 1 ELSE 100
          IN  \A l \in dataLines(file) : importedWith(file[l], factor)]_vars

(***************************************************************************)
(* C39: an export that could not write its destination                     *)
(***************************************************************************)
\* C39: if exportTracker fails to write the destination (the copy of the
\* temporary file fails), a destination that was a file before the export is
\* still there with the content it had, and mTrcFileName is what it was
C39_FailedExportKeepsFile ==
    [][lastOp'.op = "exportTrackerTo" /\ lastExport'.outcome = "failed" =>
          /\ lastExport'.existed =>
                /\ files'[lastExport'.dest].exists
                /\ files'[lastExport'.dest].lines = files[lastExport'.dest].lines
          /\ mTrcFileName' = mTrcFileName]_vars

====
